---- MODULE Spec2Model ----
(***************************************************************************)
(* Movement, collision and health pipeline of the game: the systems the    *)
(* plugins register (move_system.rs, health_system.rs, player.rs,          *)
(* enemy.rs, bullet.rs), the event queues between them and the order the   *)
(* scheduler may run them in within one frame.                             *)
(*                                                                         *)
(* Numbers: f32 coordinates and velocities are integers (pixels, pixels    *)
(* per second), delta_time is counted in tenths of a second, usize is an   *)
(* unsigned word of USIZE_MOD values.                                      *)
(***************************************************************************)
EXTENDS Integers, Sequences, FiniteSets, TLC

VARIABLES
    kind,           \* entity -> the bundle it was spawned from
    hitbox,         \* entity -> Hitbox
    alive,          \* entity -> it is spawned and not yet despawned
    pos,            \* entity -> Transform.translation, truncated to (x, y)
    vel,            \* entity -> VelocityVector
    dir,            \* entity -> DirectionVector of a bullet
    health,         \* entity -> HealthData
    collisionEv,    \* Events<CollisionEvent>
    damageEv,       \* Events<TakeDamageEvent>
    healEv,         \* Events<HealEvent>
    deathEv,        \* Events<DeathEvent>
    unread,         \* EventReader -> number of events at the tail it has not read
    done,           \* systems that have already run in this frame
    registered,     \* systems the plugins added to the App
    despawnCmd,     \* entities with a queued Commands::despawn
    panicked,       \* a system panicked: the process is gone
    overflowChecks, \* build profile: arithmetic overflow panics (debug) or wraps
    keys,           \* keyboard direction read by control_player in this frame
    dt,             \* Time::delta of this frame, in tenths of a second
    frame,          \* number of frames completed
    last,           \* what the systems of this frame did (observation record)
    posz,           \* entity -> Transform.translation.z
    maps,           \* MapStorage: the ids of the maps it holds
    files,          \* map id -> what the file saves/map<id> holds
    loadMapEv,      \* Events<LoadMap>
    renderMapEv,    \* Events<RenderMap>
    mapRead,        \* EventReader of load_map and of render_map -> events already read
    rendered,       \* the ids of the maps render_map has spawned, in order
    spawnEv,        \* Events<SpawnEnemies>
    spawnRead,      \* events the EventReader of spawn_enemies has already read
    spawner,        \* spawn_enemies: where it is and its local variables
    spawnCmd,       \* spawn commands queued by spawn_enemy
    appState,       \* State<AppState>: the current state
    nextState,      \* the state scheduled by State::set, "none" when there is none
    entering,       \* the on_enter pass of the current state is running
    levelCurrent,   \* Level.current
    checkRead,      \* events the EventReader of check_if_player_finished_level has read
    playerCmd       \* spawn commands queued by spawn_player

vars == <<kind, hitbox, dir, alive, pos, vel, health, collisionEv, damageEv, healEv, deathEv,
          unread, done, registered, despawnCmd, panicked, overflowChecks,
          keys, dt, frame, last, posz, maps, files, loadMapEv, renderMapEv, mapRead,
          rendered, spawnEv, spawnRead, spawner, spawnCmd, appState, nextState, entering,
          levelCurrent, checkRead, playerCmd>>

mapVars == <<maps, files, loadMapEv, renderMapEv, mapRead, rendered>>
spawnVars == <<spawnEv, spawnRead, spawner, spawnCmd>>
levelVars == <<appState, nextState, entering, levelCurrent, checkRead, playerCmd>>

(***************************************************************************)
(* Bounds of the model.                                                    *)
(***************************************************************************)
NumEnt == 3
MaxTargets == 2
MaxEvents == 2
MaxAmount == 1
MaxHealth == 2
MaxDt == 1
MaxFrames == 2
USIZE_MOD == 64

\* program constants
WINDOW_WIDTH == 1000
WINDOW_HEIGHT == 600
ZONE_SIZE == 100
ENEMY_BULLET_SIZE == 5
PLAYER_START_HEALTH == 42
SIMPLE_ENEMY_HEALTH == 3
BULLET_HEALTH == 1
PLAYER_START_SPEED == 100
PLAYER_BULLET_SPEED == 5
BULLET_START_SPEED == 10
SIMPLE_ENEMY_SPEED == 42

Ent == 1..NumEnt
USIZE_MAX == USIZE_MOD - 1
Amounts == (0..MaxAmount) \cup {USIZE_MAX}

Origin == [x |-> 0, y |-> 0]

\* a / b rounded towards zero, for b > 0
TruncDiv(a, b) == IF a >= 0 THEN a \div b ELSE -((-a) \div b)

Min(a, b) == IF a <= b THEN a ELSE b
Max(a, b) == IF a >= b THEN a ELSE b

(***************************************************************************)
(* Bundles and the components they carry.                                  *)
(***************************************************************************)
Kinds == {"PlayerBundle", "EnemyBundle", "BulletBundle", "EnemyBulletBundle",
          "MapObstacle", "MapFloor"}

MoveObjectType == {"Obstacle", "Floor", "Player", "Enemy", "PlayerBullet", "EnemyBullet"}

\* object_type given to MoveSystemObject by each bundle
TypeOfKind(k) ==
    CASE k = "PlayerBundle" -> "Player"
      [] k = "EnemyBundle" -> "Enemy"
      [] k = "BulletBundle" -> "PlayerBullet"
      [] k = "EnemyBulletBundle" -> "EnemyBullet"
      [] k = "MapObstacle" -> "Obstacle"
      [] k = "MapFloor" -> "Floor"

\* marker component of each bundle
MarkerOfKind(k) ==
    CASE k = "PlayerBundle" -> "PlayerMarker"
      [] k = "EnemyBundle" -> "EnemyMarker"
      [] k = "BulletBundle" -> "BulletMarker"
      [] k = "EnemyBulletBundle" -> "EnemyBulletMarker"
      [] OTHER -> "None"

\* bundles that contain a HealthData
HasHealth(k) == k \in {"PlayerBundle", "EnemyBundle", "EnemyBulletBundle"}

\* bundles that contain a VelocityVector
HasVelocity(k) == k \in {"PlayerBundle", "EnemyBundle", "BulletBundle", "EnemyBulletBundle"}

\* Hitbox::Rectangle(Vec2::new(w, h))
Rectangle(w, h) == [shape |-> "Rectangle", w |-> w, h |-> h]

\* the hitbox each spawner gives its bundle
HitboxOfKind(k) ==
    CASE k = "BulletBundle" -> Rectangle(7, 25)
      [] k = "EnemyBulletBundle" -> Rectangle(ENEMY_BULLET_SIZE, ENEMY_BULLET_SIZE)
      [] OTHER -> Rectangle(30, 30)

\* the HealthData each bundle is created with
HealthOfKind(k) ==
    CASE k = "PlayerBundle" -> PLAYER_START_HEALTH
      [] k = "EnemyBundle" -> SIMPLE_ENEMY_HEALTH
      [] k = "EnemyBulletBundle" -> BULLET_HEALTH
      [] OTHER -> 0

\* Transform.translation.z each spawner gives its bundle
ZOfKind(k) ==
    CASE k \in {"PlayerBundle", "EnemyBundle"} -> 1
      [] k \in {"BulletBundle", "EnemyBulletBundle"} -> 2
      [] OTHER -> 0

\* the levels of ENEMIES_ON_LEVEL; the map of a level has the id of the level
Levels == 1..3

\* what saves/map<id> can hold: no file, text that is not the JSON of a
\* Vec<ParsedEntity>, a list with an entity that is neither Obstacle nor Floor,
\* a list of Obstacle and Floor entities
FileStates == {"missing", "malformed", "foreign", "valid"}

\* MapPlugin::build: an empty MapStorage and empty event queues
MapIdle ==
    /\ maps = {}
    /\ files = [id \in Levels |-> "valid"]
    /\ loadMapEv = <<>>
    /\ renderMapEv = <<>>
    /\ mapRead = [load |-> 0, render |-> 0]
    /\ rendered = <<>>

\* SpawnEnemyOptions: the size and the health of the enemies of a request
SpawnEnemyOptions(w, h) == [size |-> w, health |-> h]

NoOptions == SpawnEnemyOptions(0, 0)

\* spawn_enemies is not running
IdleSpawner ==
    [pc |-> "idle", left |-> 0, options |-> NoOptions, queue |-> <<>>, others |-> {}]

\* EnemyPlugin::build: an empty Events<SpawnEnemies>
SpawnIdle ==
    /\ spawnEv = <<>>
    /\ spawnRead = 0
    /\ spawner = IdleSpawner
    /\ spawnCmd = <<>>

\* the first level is being played: reset_level_number has set Level.current to 1,
\* the state is InGame and its on_enter pass is over
LevelIdle ==
    /\ appState = "InGame"
    /\ nextState = "none"
    /\ entering = FALSE
    /\ levelCurrent = 1
    /\ checkRead = 0
    /\ playerCmd = 0

(***************************************************************************)
(* HealthData                                                              *)
(***************************************************************************)
NoHealth == [max_health |-> 0, current_health |-> 0]

new_health(max_health) == [max_health |-> max_health, current_health |-> max_health]

\* usize addition: the sum and whether it left the word
AddOverflows(a, b) == a + b >= USIZE_MOD
WrappingAdd(a, b) == (a + b) % USIZE_MOD

\* heal without the clamp to max_health
heal_unclamped(hd, amount) ==
    [hd EXCEPT !.current_health = WrappingAdd(hd.current_health, amount)]

heal(hd, amount) ==
    [hd EXCEPT !.current_health = Min(hd.max_health, WrappingAdd(hd.current_health, amount))]

\* take_damage without the branch that stops at zero: the subtraction wraps
take_damage_wrapping(hd, amount) ==
    [hd EXCEPT !.current_health = (hd.current_health - amount + USIZE_MOD) % USIZE_MOD]

\* the HealthData after take_damage
take_damage(hd, amount) ==
    IF hd.current_health <= amount
    THEN [hd EXCEPT !.current_health = 0]
    ELSE [hd EXCEPT !.current_health = hd.current_health - amount]

\* take_damage reporting death only when the damage exceeds the health
take_damage_died_strict(hd, amount) == hd.current_health < amount

\* the return value of take_damage
take_damage_died(hd, amount) == hd.current_health <= amount

(***************************************************************************)
(* Events<T>: two buffers.  The events sent since the last update and the  *)
(* events sent in the frame before it; update drops the older ones.  A     *)
(* reader sees every event at most once.                                   *)
(***************************************************************************)
EmptyEvents == [evs |-> <<>>, old |-> 0]

EventsSend(buf, e) == [buf EXCEPT !.evs = Append(@, e)]

RECURSIVE EventsSendAll(_, _)
EventsSendAll(buf, es) ==
    IF es = <<>> THEN buf ELSE EventsSendAll(EventsSend(buf, Head(es)), Tail(es))

EventsUpdate(buf) ==
    [evs |-> SubSeq(buf.evs, buf.old + 1, Len(buf.evs)),
     old |-> Len(buf.evs) - buf.old]

\* what EventReader::iter yields to a reader with n unread events
EventsUnread(buf, n) == SubSeq(buf.evs, Len(buf.evs) - n + 1, Len(buf.evs))

(***************************************************************************)
(* Systems, their labels and the order constraints of the plugins.         *)
(***************************************************************************)
Systems == {"clear_velocity_vector", "control_player", "player_bullet_movement",
            "move_enemies", "bullet_movement", "move_system",
            "player_on_collision_bullet", "on_collision_bullet",
            "enemies_take_damage", "player_takes_damage", "health_system",
            "despawn_dead_enemies", "despawn_bullets_after_collision", "player_dies"}

\* the labels with control_player left without its ModifyVelocity label
Labels_control_player_unlabelled(s) ==
    CASE s = "clear_velocity_vector" -> {"ClearVelocity"}
      [] s \in {"player_bullet_movement", "move_enemies",
                "bullet_movement"} -> {"ModifyVelocity"}
      [] s = "player_on_collision_bullet" -> {"HandleCollisionEvents"}
      [] s = "on_collision_bullet" -> {"HandleCollisionEvents", "ModifyHealth"}
      [] s \in {"enemies_take_damage", "player_takes_damage"} -> {"ModifyHealth"}
      [] s \in {"despawn_dead_enemies", "despawn_bullets_after_collision",
                "player_dies"} -> {"ReadDeaths"}
      [] OTHER -> {}

\* .label(..) of each system
Labels(s) ==
    CASE s = "clear_velocity_vector" -> {"ClearVelocity"}
      [] s \in {"control_player", "player_bullet_movement", "move_enemies",
                "bullet_movement"} -> {"ModifyVelocity"}
      [] s = "player_on_collision_bullet" -> {"HandleCollisionEvents"}
      [] s = "on_collision_bullet" -> {"HandleCollisionEvents", "ModifyHealth"}
      [] s \in {"enemies_take_damage", "player_takes_damage"} -> {"ModifyHealth"}
      [] s \in {"despawn_dead_enemies", "despawn_bullets_after_collision",
                "player_dies"} -> {"ReadDeaths"}
      [] OTHER -> {}

\* .before(..) of each system
BeforeLabels(s) ==
    CASE s = "clear_velocity_vector" -> {"ModifyVelocity"}
      [] s = "move_system" -> {"HandleCollisionEvents"}
      [] s = "health_system" -> {"ReadDeaths"}
      [] OTHER -> {}

\* the constraints with health_system left without its .after(ModifyHealth)
AfterLabels_health_system_unordered(s) ==
    CASE s = "move_system" -> {"ModifyVelocity", "ClearVelocity"}
      [] OTHER -> {}

\* .after(..) of each system
AfterLabels(s) ==
    CASE s = "move_system" -> {"ModifyVelocity", "ClearVelocity"}
      [] s = "health_system" -> {"ModifyHealth"}
      [] OTHER -> {}

\* the scheduler runs a before b in every frame
MustPrecede(a, b) ==
    \/ Labels(b) \cap BeforeLabels(a) # {}
    \/ Labels(a) \cap AfterLabels(b) # {}

\* the systems added with add_system: they run in every state
Ungated == {"clear_velocity_vector", "move_system"}

\* SystemSet::on_update(AppState::InGame): the systems of the plugins run in the
\* update pass of the state InGame
RunsInState(s) == s \in Ungated \/ (appState = "InGame" /\ ~entering)

\* s has not run in this frame and everything ordered before it has
CanRun(s) ==
    /\ ~panicked
    /\ s \in registered
    /\ RunsInState(s)
    /\ s \notin done
    /\ \A t \in registered : MustPrecede(t, s) => t \in done

(***************************************************************************)
(* Event readers: one cursor for every EventReader parameter of a system.  *)
(***************************************************************************)
CollisionReaders == {"player_on_collision_bullet", "on_collision_bullet",
                     "enemies_take_damage", "player_takes_damage"}
DamageReaders == {"health_system.damage"}
HealReaders == {"health_system.heal"}
DeathReaders == {"despawn_dead_enemies", "despawn_bullets_after_collision", "player_dies"}
Readers == CollisionReaders \cup DamageReaders \cup HealReaders \cup DeathReaders

ReaderSystem(r) == IF r \in DamageReaders \cup HealReaders THEN "health_system" ELSE r

\* n events were sent to the queue read by rs
Bump(u, rs, n) ==
    [r \in Readers |-> IF r \in rs /\ ReaderSystem(r) \in registered THEN u[r] + n ELSE u[r]]

\* the readers rs have consumed everything
Consume(u, rs) == [r \in Readers |-> IF r \in rs THEN 0 ELSE u[r]]

\* after Events::update a reader cannot see the dropped events
Cap(u, rs, buf) == [r \in Readers |-> IF r \in rs THEN Min(u[r], Len(buf.evs)) ELSE u[r]]

(***************************************************************************)
(* health_system                                                           *)
(***************************************************************************)
\* a lookup that still finds the HealthData of a despawned entity
HealthQuery_ignores_despawn(e) == HasHealth(kind[e])

\* Query<&mut HealthData>::get_mut(id) succeeds
HealthQuery(e) == alive[e] /\ HasHealth(kind[e])

\* the loop over heal_reader.iter(): acc = [h, panic]
RECURSIVE ApplyHeals(_, _)
ApplyHeals(acc, evs) ==
    IF evs = <<>> \/ acc.panic THEN acc
    ELSE LET ev == Head(evs)
         IN IF ~HealthQuery(ev.id) THEN ApplyHeals(acc, Tail(evs))
            ELSE IF overflowChecks /\ AddOverflows(acc.h[ev.id].current_health, ev.amount)
                 THEN [acc EXCEPT !.panic = TRUE]
                 ELSE ApplyHeals([acc EXCEPT !.h[ev.id] = heal(@, ev.amount)], Tail(evs))

\* the loop over damage_reader.iter(): acc = [h, dead]
RECURSIVE ApplyDamages(_, _)
ApplyDamages(acc, evs) ==
    IF evs = <<>> THEN acc
    ELSE LET ev == Head(evs)
         IN IF ~HealthQuery(ev.id) THEN ApplyDamages(acc, Tail(evs))
            ELSE ApplyDamages(
                    [h |-> [acc.h EXCEPT ![ev.id] = take_damage(@, ev.amount)],
                     dead |-> IF take_damage_died(acc.h[ev.id], ev.amount)
                              THEN acc.dead \cup {ev.id} ELSE acc.dead],
                    Tail(evs))

\* the sequences that list every element of S once (iteration orders of a HashSet)
Orders(S) ==
    {s \in [1..Cardinality(S) -> S] : \A i, j \in 1..Cardinality(S) : i # j => s[i] # s[j]}

DeathEvents(order) == [i \in 1..Len(order) |-> [id |-> order[i]]]

\* the two loops with the damage loop first
Resolve_damage_first(h, heals, dmgs) ==
    LET damaged == ApplyDamages([h |-> h, dead |-> {}], dmgs)
        healed == ApplyHeals([h |-> damaged.h, panic |-> FALSE], heals)
    IN [h |-> healed.h, dead |-> damaged.dead, panic |-> healed.panic]

\* the two loops of health_system on the HealthData h: heals, then damages
Resolve(h, heals, dmgs) ==
    LET healed == ApplyHeals([h |-> h, panic |-> FALSE], heals)
        damaged == ApplyDamages([h |-> healed.h, dead |-> {}], dmgs)
    IN [h |-> damaged.h, dead |-> damaged.dead, panic |-> healed.panic]

health_system ==
    /\ CanRun("health_system")
    /\ LET heals == EventsUnread(healEv, unread["health_system.heal"])
           dmgs == EventsUnread(damageEv, unread["health_system.damage"])
           damaged == Resolve(health, heals, dmgs)
       IN IF damaged.panic
          THEN /\ panicked' = TRUE
               /\ UNCHANGED <<health, deathEv, unread, done, last>>
          ELSE /\ health' = damaged.h
               /\ \E order \in Orders(damaged.dead) :
                    /\ deathEv' = EventsSendAll(deathEv, DeathEvents(order))
                    /\ last' = [last EXCEPT !.deaths = order]
               /\ unread' = Bump(Consume(unread, DamageReaders \cup HealReaders),
                                 DeathReaders, Cardinality(damaged.dead))
               /\ done' = done \cup {"health_system"}
               /\ UNCHANGED panicked
    /\ UNCHANGED <<kind, posz, levelVars, mapVars, spawnVars, hitbox, dir, alive, pos, vel, collisionEv, damageEv, healEv, registered,
                   despawnCmd, overflowChecks, keys, dt, frame>>

(***************************************************************************)
(* Death consumers                                                         *)
(***************************************************************************)
\* a consumer that despawns whatever its query yields, without a DeathEvent
DespawnedBy_without_event(r, ms) ==
    {e \in Ent : alive[e] /\ MarkerOfKind(kind[e]) \in ms}

\* the entities a death consumer with marker set ms despawns
DespawnedBy(r, ms) ==
    {e \in Ent : /\ alive[e]
                 /\ MarkerOfKind(kind[e]) \in ms
                 /\ \E i \in 1..Len(EventsUnread(deathEv, unread[r])) :
                        EventsUnread(deathEv, unread[r])[i].id = e}

despawn_dead_enemies ==
    /\ CanRun("despawn_dead_enemies")
    /\ despawnCmd' = despawnCmd \cup DespawnedBy("despawn_dead_enemies", {"EnemyMarker"})
    /\ unread' = Consume(unread, {"despawn_dead_enemies"})
    /\ done' = done \cup {"despawn_dead_enemies"}
    /\ UNCHANGED <<kind, posz, levelVars, mapVars, spawnVars, hitbox, dir, alive, pos, vel, health, collisionEv, damageEv, healEv, deathEv,
                   registered, panicked, overflowChecks, keys, dt, frame, last>>

despawn_bullets_after_collision ==
    /\ CanRun("despawn_bullets_after_collision")
    /\ despawnCmd' = despawnCmd \cup DespawnedBy("despawn_bullets_after_collision",
                                                 {"EnemyBulletMarker", "PlayerBulletMarker"})
    /\ unread' = Consume(unread, {"despawn_bullets_after_collision"})
    /\ done' = done \cup {"despawn_bullets_after_collision"}
    /\ UNCHANGED <<kind, posz, levelVars, mapVars, spawnVars, hitbox, dir, alive, pos, vel, health, collisionEv, damageEv, healEv, deathEv,
                   registered, panicked, overflowChecks, keys, dt, frame, last>>

player_dies ==
    /\ CanRun("player_dies")
    /\ unread' = Consume(unread, {"player_dies"})
    /\ done' = done \cup {"player_dies"}
    /\ UNCHANGED <<kind, posz, levelVars, mapVars, spawnVars, hitbox, dir, alive, pos, vel, health, collisionEv, damageEv, healEv, deathEv,
                   registered, despawnCmd, panicked, overflowChecks, keys, dt, frame, last>>

(***************************************************************************)
(* move_system                                                             *)
(***************************************************************************)
ZONES_HORIZONTALLY == WINDOW_WIDTH \div ZONE_SIZE + 1
ZONES_VERTICALLY == WINDOW_HEIGHT \div ZONE_SIZE + 1

Vec2(x, y) == [x |-> x, y |-> y]

\* (a / b) as usize, for b > 0: the cast truncates, and gives 0 for a negative value
DivAsUsize(a, b) == IF a < 0 THEN 0 ELSE a \div b

\* the zone of a position without the clamp to the last row and column
get_zone_unclamped(position) ==
    LET x == position.x + WINDOW_WIDTH \div 2
        y == position.y + WINDOW_HEIGHT \div 2
    IN Vec2(DivAsUsize(x, ZONE_SIZE), DivAsUsize(y, ZONE_SIZE))

get_zone(position) ==
    LET x == position.x + WINDOW_WIDTH \div 2
        y == position.y + WINDOW_HEIGHT \div 2
    IN Vec2(Min(DivAsUsize(x, ZONE_SIZE), ZONES_HORIZONTALLY - 1),
            Min(DivAsUsize(y, ZONE_SIZE), ZONES_VERTICALLY - 1))

\* the table without its (Enemy, Enemy) arm
ignore_collision_enemies_collide(type_1, type_2) ==
    CASE type_1 = "PlayerBullet" /\ type_2 = "PlayerBullet" -> FALSE
      [] {type_1, type_2} = {"Player", "PlayerBullet"} -> TRUE
      [] {type_1, type_2} = {"Player", "Floor"} -> TRUE
      [] {type_1, type_2} = {"Enemy", "Floor"} -> TRUE
      [] {type_1, type_2} = {"PlayerBullet", "Floor"} -> TRUE
      [] {type_1, type_2} = {"Enemy", "EnemyBullet"} -> TRUE
      [] {type_1, type_2} = {"EnemyBullet", "Floor"} -> TRUE
      [] OTHER -> FALSE

\* the table with the arm (Player, PlayerBullet) but not its mirror
ignore_collision_one_way(type_1, type_2) ==
    CASE type_1 = "PlayerBullet" /\ type_2 = "PlayerBullet" -> FALSE
      [] type_1 = "Player" /\ type_2 = "PlayerBullet" -> TRUE
      [] {type_1, type_2} = {"Player", "Floor"} -> TRUE
      [] {type_1, type_2} = {"Enemy", "Floor"} -> TRUE
      [] {type_1, type_2} = {"PlayerBullet", "Floor"} -> TRUE
      [] {type_1, type_2} = {"Enemy", "EnemyBullet"} -> TRUE
      [] {type_1, type_2} = {"EnemyBullet", "Floor"} -> TRUE
      [] type_1 = "Enemy" /\ type_2 = "Enemy" -> TRUE
      [] OTHER -> FALSE

\* the table of ignore_collision
ignore_collision(type_1, type_2) ==
    CASE type_1 = "PlayerBullet" /\ type_2 = "PlayerBullet" -> FALSE
      [] {type_1, type_2} = {"Player", "PlayerBullet"} -> TRUE
      [] {type_1, type_2} = {"Player", "Floor"} -> TRUE
      [] {type_1, type_2} = {"Enemy", "Floor"} -> TRUE
      [] {type_1, type_2} = {"PlayerBullet", "Floor"} -> TRUE
      [] {type_1, type_2} = {"Enemy", "EnemyBullet"} -> TRUE
      [] {type_1, type_2} = {"EnemyBullet", "Floor"} -> TRUE
      [] type_1 = "Enemy" /\ type_2 = "Enemy" -> TRUE
      [] OTHER -> FALSE

\* the table of allow_overlap
allow_overlap(type_1, type_2) == FALSE

\* the test with the sizes taken as half extents
collide_sizes_as_half_extents(a_pos, a_size, b_pos, b_size) ==
    /\ a_pos.x - a_size.w < b_pos.x + b_size.w
    /\ a_pos.x + a_size.w > b_pos.x - b_size.w
    /\ a_pos.y - a_size.h < b_pos.y + b_size.h
    /\ a_pos.y + a_size.h > b_pos.y - b_size.h

\* the test with <= and >=: rectangles that only touch count as colliding
collide_inclusive(a_pos, a_size, b_pos, b_size) ==
    /\ 2 * a_pos.x - a_size.w <= 2 * b_pos.x + b_size.w
    /\ 2 * a_pos.x + a_size.w >= 2 * b_pos.x - b_size.w
    /\ 2 * a_pos.y - a_size.h <= 2 * b_pos.y + b_size.h
    /\ 2 * a_pos.y + a_size.h >= 2 * b_pos.y - b_size.h

\* bevy::sprite::collide_aabb::collide(..).is_some(), in doubled coordinates
collide(a_pos, a_size, b_pos, b_size) ==
    /\ 2 * a_pos.x - a_size.w < 2 * b_pos.x + b_size.w
    /\ 2 * a_pos.x + a_size.w > 2 * b_pos.x - b_size.w
    /\ 2 * a_pos.y - a_size.h < 2 * b_pos.y + b_size.h
    /\ 2 * a_pos.y + a_size.h > 2 * b_pos.y - b_size.h

\* Hitbox::check_collision for two rectangles
check_collision(x_hitbox, x_position, y_hitbox, y_position) ==
    collide(x_position, x_hitbox, y_position, y_hitbox)

\* Hitbox::Circle(f32), a circle of radius r
Circle(r) == [shape |-> "Circle", r |-> r]

\* the arms of the match in Hitbox::check_collision that end in todo!(): two circles,
\* a rectangle with a circle, and a circle with a rectangle through the swapped call
RECURSIVE check_collision_todo(_, _)
check_collision_todo(x_hitbox, y_hitbox) ==
    CASE x_hitbox.shape = "Rectangle" /\ y_hitbox.shape = "Rectangle" -> FALSE
      [] x_hitbox.shape = "Circle" /\ y_hitbox.shape = "Circle" -> TRUE
      [] x_hitbox.shape = "Rectangle" /\ y_hitbox.shape = "Circle" -> TRUE
      [] x_hitbox.shape = "Circle" /\ y_hitbox.shape = "Rectangle" ->
            check_collision_todo(y_hitbox, x_hitbox)

\* the query loop without its filter: the floor is pushed to the grid too
InGrid_with_floor(e) == alive[e]

\* the filter of the query loop: everything with a MoveSystemMarker but the floor
InGrid(e) == alive[e] /\ TypeOfKind(kind[e]) # "Floor"

\* the displacement with its y component dropped
Displacement_x_only(v) == Vec2(TruncDiv(v.x * dt, 10), 0)

\* velocity.0 * delta_time
Displacement(v) == Vec2(TruncDiv(v.x * dt, 10), TruncDiv(v.y * dt, 10))

future_position(e) ==
    IF HasVelocity(kind[e])
    THEN Vec2(pos[e].x + Displacement(vel[e]).x, pos[e].y + Displacement(vel[e]).y)
    ELSE pos[e]

\* the query yields the entities in the order of their ids
EntSeq == [i \in 1..NumEnt |-> i]

\* zones[x][y]: the entities pushed to the zone of their current position
ZoneContent(z) == SelectSeq(EntSeq, LAMBDA e : InGrid(e) /\ get_zone(pos[e]) = z)

bordering_zones(z) ==
    SelectSeq(<<Vec2(z.x + 1, z.y), Vec2(z.x, z.y + 1), Vec2(z.x + 1, z.y + 1)>>,
              LAMBDA b : b.x < ZONES_HORIZONTALLY /\ b.y < ZONES_VERTICALLY)

RECURSIVE Concat(_)
Concat(ss) == IF ss = <<>> THEN <<>> ELSE Head(ss) \o Concat(Tail(ss))

\* the whole current zone instead of the objects after the k-th
Partners_whole_zone(z, k) ==
    ZoneContent(z)
        \o Concat([n \in 1..Len(bordering_zones(z)) |-> ZoneContent(bordering_zones(z)[n])])

\* rest_of_current.chain(other_zones) for the k-th object of zone z
Partners(z, k) ==
    SubSeq(ZoneContent(z), k + 1, Len(ZoneContent(z)))
        \o Concat([n \in 1..Len(bordering_zones(z)) |-> ZoneContent(bordering_zones(z)[n])])

\* the pairs (obj1, obj2) the loops visit from zone z
PairsFrom(z) ==
    LET current == ZoneContent(z)
    IN IF current = <<>> THEN <<>>
       ELSE Concat([k \in 1..Len(current) |->
                      LET others == Partners(z, k)
                      IN [m \in 1..Len(others) |-> <<current[k], others[m]>>]])

\* for i in 0..ZONES_HORIZONTALLY, for j in 0..ZONES_VERTICALLY
ZoneOrder ==
    [n \in 1..(ZONES_HORIZONTALLY * ZONES_VERTICALLY) |->
        Vec2((n - 1) \div ZONES_VERTICALLY, (n - 1) % ZONES_VERTICALLY)]

\* the pairs in the order the loops visit them (an empty zone contributes none)
VisitedPairs ==
    LET occupied == {get_zone(pos[e]) : e \in {q \in Ent : InGrid(q)}}
    IN Concat([n \in 1..Len(ZoneOrder) |->
                 IF ZoneOrder[n] \in occupied THEN PairsFrom(ZoneOrder[n]) ELSE <<>>])

CollisionEvent(a, b) ==
    [object_id |-> a, object_type |-> TypeOfKind(kind[a]),
     collided_with_id |-> b, collided_with_type |-> TypeOfKind(kind[b])]

\* the pair loop marking only the first object of a pair
RECURSIVE CheckPairs_first_only(_, _)
CheckPairs_first_only(acc, pairs) ==
    IF pairs = <<>> THEN acc
    ELSE LET first == Head(pairs)[1]
             second == Head(pairs)[2]
             first_type == TypeOfKind(kind[first])
             second_type == TypeOfKind(kind[second])
         IN IF /\ ~ignore_collision(first_type, second_type)
               /\ check_collision(hitbox[first], future_position(first),
                                  hitbox[second], future_position(second))
            THEN CheckPairs_first_only(
                    [blocked |-> IF ~allow_overlap(first_type, second_type)
                                 THEN acc.blocked \cup {first} ELSE acc.blocked,
                     events |-> acc.events \o <<CollisionEvent(first, second),
                                                CollisionEvent(second, first)>>],
                    Tail(pairs))
            ELSE CheckPairs_first_only(acc, Tail(pairs))

\* the pair loop with a pair that does not collide clearing the flags of its objects
RECURSIVE CheckPairs_resets(_, _)
CheckPairs_resets(acc, pairs) ==
    IF pairs = <<>> THEN acc
    ELSE LET first == Head(pairs)[1]
             second == Head(pairs)[2]
             first_type == TypeOfKind(kind[first])
             second_type == TypeOfKind(kind[second])
         IN IF /\ ~ignore_collision(first_type, second_type)
               /\ check_collision(hitbox[first], future_position(first),
                                  hitbox[second], future_position(second))
            THEN CheckPairs_resets(
                    [blocked |-> IF ~allow_overlap(first_type, second_type)
                                 THEN acc.blocked \cup {first, second} ELSE acc.blocked,
                     events |-> acc.events \o <<CollisionEvent(first, second),
                                                CollisionEvent(second, first)>>],
                    Tail(pairs))
            ELSE CheckPairs_resets([acc EXCEPT !.blocked = @ \ {first, second}],
                                   Tail(pairs))

\* the body of the pair loop: acc = [blocked, events]
RECURSIVE CheckPairs(_, _)
CheckPairs(acc, pairs) ==
    IF pairs = <<>> THEN acc
    ELSE LET first == Head(pairs)[1]
             second == Head(pairs)[2]
             first_type == TypeOfKind(kind[first])
             second_type == TypeOfKind(kind[second])
         IN IF /\ ~ignore_collision(first_type, second_type)
               /\ check_collision(hitbox[first], future_position(first),
                                  hitbox[second], future_position(second))
            THEN CheckPairs(
                    [blocked |-> IF ~allow_overlap(first_type, second_type)
                                 THEN acc.blocked \cup {first, second} ELSE acc.blocked,
                     events |-> acc.events \o <<CollisionEvent(first, second),
                                                CollisionEvent(second, first)>>],
                    Tail(pairs))
            ELSE CheckPairs(acc, Tail(pairs))

\* the index of the first visited pair whose test !ignore_collision(..) &&
\* Hitbox::check_collision(..) ends in todo!(), 0 when every test returns
FirstTodo(pairs) ==
    LET fatal == {n \in 1..Len(pairs) :
                    /\ ~ignore_collision(TypeOfKind(kind[pairs[n][1]]), TypeOfKind(kind[pairs[n][2]]))
                    /\ check_collision_todo(hitbox[pairs[n][1]], hitbox[pairs[n][2]])}
    IN IF fatal = {} THEN 0 ELSE CHOOSE n \in fatal : \A m \in fatal : n <= m

\* the events of an aborted run with the aborting pair reported as a collision
EventsBeforeTodo_with_pair(pairs, n) ==
    CheckPairs([blocked |-> {}, events |-> <<>>], SubSeq(pairs, 1, n - 1)).events
        \o <<CollisionEvent(pairs[n][1], pairs[n][2]), CollisionEvent(pairs[n][2], pairs[n][1])>>

\* the events sent before the test of the pair n aborts the run: those of the pairs
\* visited before it
EventsBeforeTodo(pairs, n) ==
    CheckPairs([blocked |-> {}, events |-> <<>>], SubSeq(pairs, 1, n - 1)).events

\* a run of move_system: when the test of a pair ends in todo!() the panic ends the
\* program inside the pair loops, after the events of the earlier pairs were sent and
\* before any Transform is written
move_system ==
    /\ CanRun("move_system")
    /\ LET visited == VisitedPairs
           n == FirstTodo(visited)
       IN IF n = 0
          THEN LET r == CheckPairs([blocked |-> {}, events |-> <<>>], visited)
               IN /\ pos' = [e \in Ent |-> IF InGrid(e) /\ e \notin r.blocked
                                           THEN future_position(e) ELSE pos[e]]
                  /\ collisionEv' = EventsSendAll(collisionEv, r.events)
                  /\ unread' = Bump(unread, CollisionReaders, Len(r.events))
                  /\ done' = done \cup {"move_system"}
                  /\ panicked' = panicked
          ELSE LET sent == EventsBeforeTodo(visited, n)
               IN /\ pos' = pos
                  /\ collisionEv' = EventsSendAll(collisionEv, sent)
                  /\ unread' = Bump(unread, CollisionReaders, Len(sent))
                  /\ done' = done
                  /\ panicked' = TRUE
    /\ UNCHANGED <<kind, posz, levelVars, mapVars, spawnVars, hitbox, dir, alive, vel, health, damageEv, healEv, deathEv, registered,
                   despawnCmd, overflowChecks, keys, dt, frame, last>>

\* the loop that resets only the x component
ClearAll_x_only(v) ==
    [e \in Ent |-> IF alive[e] /\ HasVelocity(kind[e]) THEN Vec2(0, v[e].y) ELSE v[e]]

\* the loop of clear_velocity_vector over the velocities v: every VelocityVector of
\* an entity with a MoveSystemMarker is set to zero
ClearAll(v) ==
    [e \in Ent |-> IF alive[e] /\ HasVelocity(kind[e]) THEN Origin ELSE v[e]]

clear_velocity_vector ==
    /\ CanRun("clear_velocity_vector")
    /\ vel' = ClearAll(vel)
    /\ done' = done \cup {"clear_velocity_vector"}
    /\ UNCHANGED <<kind, posz, levelVars, mapVars, spawnVars, hitbox, dir, alive, pos, health, collisionEv, damageEv, healEv, deathEv,
                   unread, registered, despawnCmd, panicked, overflowChecks, keys, dt, frame, last>>

(***************************************************************************)
(* The systems labelled ModifyVelocity                                     *)
(***************************************************************************)
\* the Speed component of each bundle
SpeedOfKind(k) ==
    CASE k = "PlayerBundle" -> PLAYER_START_SPEED
      [] k = "EnemyBundle" -> SIMPLE_ENEMY_SPEED
      [] k = "BulletBundle" -> PLAYER_BULLET_SPEED
      [] k = "EnemyBulletBundle" -> BULLET_START_SPEED
      [] OTHER -> 0

\* the integer square root of n, searched between lo and hi
RECURSIVE ISqrt(_, _, _)
ISqrt(n, lo, hi) ==
    IF lo >= hi THEN lo
    ELSE LET mid == (lo + hi + 1) \div 2
         IN IF mid * mid <= n THEN ISqrt(n, mid, hi) ELSE ISqrt(n, lo, mid - 1)

\* v.normalize_or_zero() * speed, rounded towards zero
NormalizeTimes(v, speed) ==
    LET len100 == ISqrt(10000 * (v.x * v.x + v.y * v.y), 0, 40000)
    IN IF len100 = 0 THEN Origin
       ELSE Vec2(TruncDiv(v.x * speed * 100, len100), TruncDiv(v.y * speed * 100, len100))

\* the accumulator assigned (=) instead of added to (+=)
VecAdd_overwrite(a, b) == b

\* vel.0 += new_vel
VecAdd(a, b) == Vec2(a.x + b.x, a.y + b.y)

\* the entities a query with the given marker filter yields
WithMarker(ms) == {e \in Ent : alive[e] /\ MarkerOfKind(kind[e]) \in ms}

\* Query::get_single succeeds: exactly one entity matches
Single(S) == Cardinality(S) = 1

\* what control_player adds to the velocity of e
ControlPlayerVel(e) ==
    IF Single(WithMarker({"PlayerMarker"})) /\ e \in WithMarker({"PlayerMarker"})
    THEN NormalizeTimes(keys, SpeedOfKind(kind[e])) ELSE Origin

control_player ==
    /\ CanRun("control_player")
    /\ vel' = [e \in Ent |-> VecAdd(vel[e], ControlPlayerVel(e))]
    /\ done' = done \cup {"control_player"}
    /\ UNCHANGED <<kind, posz, levelVars, mapVars, spawnVars, hitbox, dir, alive, pos, health, collisionEv, damageEv, healEv,
                   deathEv, unread, registered, despawnCmd, panicked, overflowChecks,
                   keys, dt, frame, last>>

\* what move_enemies adds to the velocity of e
MoveEnemiesVel(e) ==
    IF Single(WithMarker({"PlayerMarker"})) /\ e \in WithMarker({"EnemyMarker"})
    THEN LET player == CHOOSE q \in WithMarker({"PlayerMarker"}) : TRUE
         IN NormalizeTimes(Vec2(pos[player].x - pos[e].x, pos[player].y - pos[e].y),
                           SpeedOfKind(kind[e]))
    ELSE Origin

move_enemies ==
    /\ CanRun("move_enemies")
    /\ vel' = [e \in Ent |-> VecAdd(vel[e], MoveEnemiesVel(e))]
    /\ done' = done \cup {"move_enemies"}
    /\ UNCHANGED <<kind, posz, levelVars, mapVars, spawnVars, hitbox, dir, alive, pos, health, collisionEv, damageEv, healEv,
                   deathEv, unread, registered, despawnCmd, panicked, overflowChecks,
                   keys, dt, frame, last>>

\* direction.0 * speed of a bullet matched by a marker filter
BulletVel(e, ms) ==
    IF e \in WithMarker(ms)
    THEN Vec2(dir[e].x * SpeedOfKind(kind[e]), dir[e].y * SpeedOfKind(kind[e]))
    ELSE Origin

\* bullet_movement of player.rs: the bullets of the player, despawned past the window
player_bullet_movement ==
    /\ CanRun("player_bullet_movement")
    /\ vel' = [e \in Ent |-> VecAdd(vel[e], BulletVel(e, {"BulletMarker"}))]
    /\ despawnCmd' = despawnCmd \cup
          {e \in WithMarker({"BulletMarker"}) :
              pos[e].y > WINDOW_HEIGHT \/ pos[e].x > WINDOW_WIDTH}
    /\ done' = done \cup {"player_bullet_movement"}
    /\ UNCHANGED <<kind, posz, levelVars, mapVars, spawnVars, hitbox, dir, alive, pos, health, collisionEv, damageEv, healEv,
                   deathEv, unread, registered, panicked, overflowChecks,
                   keys, dt, frame, last>>

\* bullet_movement of bullet.rs
bullet_movement ==
    /\ CanRun("bullet_movement")
    /\ vel' = [e \in Ent |->
                 VecAdd(vel[e], BulletVel(e, {"EnemyBulletMarker", "PlayerBulletMarker"}))]
    /\ done' = done \cup {"bullet_movement"}
    /\ UNCHANGED <<kind, posz, levelVars, mapVars, spawnVars, hitbox, dir, alive, pos, health, collisionEv, damageEv, healEv,
                   deathEv, unread, registered, despawnCmd, panicked, overflowChecks,
                   keys, dt, frame, last>>

(***************************************************************************)
(* The systems that read CollisionEvents                                   *)
(***************************************************************************)
TakeDamageEvent(id, amount) == [id |-> id, amount |-> amount]

\* on_collision_bullet of player.rs: despawns the player's bullets that hit something
player_on_collision_bullet ==
    /\ CanRun("player_on_collision_bullet")
    /\ LET evs == EventsUnread(collisionEv, unread["player_on_collision_bullet"])
       IN despawnCmd' = despawnCmd \cup
             {e \in WithMarker({"BulletMarker"}) :
                 \E i \in 1..Len(evs) : evs[i].object_type = "PlayerBullet"
                                        /\ evs[i].object_id = e}
    /\ unread' = Consume(unread, {"player_on_collision_bullet"})
    /\ done' = done \cup {"player_on_collision_bullet"}
    /\ UNCHANGED <<kind, posz, levelVars, mapVars, spawnVars, hitbox, dir, alive, pos, vel, health, collisionEv, damageEv, healEv,
                   deathEv, registered, panicked, overflowChecks, keys, dt, frame, last>>

\* the loop body sending the damage to the entity the bullet collided with
BulletDamage_to_target(c) ==
    IF c.object_id \in WithMarker({"EnemyBulletMarker", "PlayerBulletMarker"})
    THEN <<TakeDamageEvent(c.collided_with_id, 1)>> ELSE <<>>

\* loop body of on_collision_bullet of bullet.rs
BulletDamage(c) ==
    IF c.object_id \in WithMarker({"EnemyBulletMarker", "PlayerBulletMarker"})
    THEN <<TakeDamageEvent(c.object_id, 1)>> ELSE <<>>

\* the loop body without the filter on the direction of the event
EnemyDamage_either_direction(c) ==
    IF /\ {c.object_type, c.collided_with_type} = {"Enemy", "PlayerBullet"}
       /\ WithMarker({"EnemyMarker"}) \cap {c.object_id, c.collided_with_id} # {}
    THEN <<TakeDamageEvent(CHOOSE e \in WithMarker({"EnemyMarker"}) :
                              e \in {c.object_id, c.collided_with_id}, 1)>>
    ELSE <<>>

\* loop body of enemies_take_damage
EnemyDamage(c) ==
    IF /\ c.object_type = "Enemy"
       /\ c.collided_with_type = "PlayerBullet"
       /\ c.object_id \in WithMarker({"EnemyMarker"})
    THEN <<TakeDamageEvent(c.object_id, 1)>> ELSE <<>>

\* loop body of player_takes_damage
PlayerDamage(c) ==
    IF /\ c.object_id \in WithMarker({"PlayerMarker"})
       /\ c.collided_with_id \in WithMarker({"BulletMarker"})
    THEN <<TakeDamageEvent(c.object_id, 1)>>
    ELSE IF /\ c.object_id \in WithMarker({"PlayerMarker"})
            /\ c.collided_with_id \in WithMarker({"EnemyMarker"})
         THEN <<TakeDamageEvent(c.object_id, 1)>>
         ELSE <<>>

\* the loop body of each of the three systems that map collisions to damage
LoopBody(s, c) ==
    CASE s = "on_collision_bullet" -> BulletDamage(c)
      [] s = "enemies_take_damage" -> EnemyDamage(c)
      [] s = "player_takes_damage" -> PlayerDamage(c)

\* the TakeDamageEvents system s sends for the events evs, one loop turn each
MapCollisions(s, evs) == Concat([i \in 1..Len(evs) |-> LoopBody(s, evs[i])])

\* a system that maps its unread CollisionEvents to TakeDamageEvents
DamageMapper(s) ==
    /\ CanRun(s)
    /\ LET sent == MapCollisions(s, EventsUnread(collisionEv, unread[s]))
       IN /\ damageEv' = EventsSendAll(damageEv, sent)
          /\ unread' = Bump(Consume(unread, {s}), DamageReaders, Len(sent))
    /\ done' = done \cup {s}
    /\ UNCHANGED <<kind, posz, levelVars, mapVars, spawnVars, hitbox, dir, alive, pos, vel, health, collisionEv, healEv, deathEv,
                   registered, despawnCmd, panicked, overflowChecks, keys, dt, frame, last>>

on_collision_bullet == DamageMapper("on_collision_bullet")

enemies_take_damage == DamageMapper("enemies_take_damage")

player_takes_damage == DamageMapper("player_takes_damage")

(***************************************************************************)
(* Writers outside the health subsystem: a system holding an EventWriter   *)
(* may send an event for any entity id and amount.  The systems that write *)
(* TakeDamageEvents are labelled ModifyHealth and run before               *)
(* health_system; the writer of HealEvents has no label.                   *)
(***************************************************************************)
\* the entity ids the writers name
Targets == {e \in Ent : e <= MaxTargets}

SendDamage ==
    /\ ~panicked
    /\ "health_system" \in registered \ done
    /\ Len(damageEv.evs) + Len(healEv.evs) < MaxEvents
    /\ \E e \in Targets, a \in Amounts :
         damageEv' = EventsSend(damageEv, [id |-> e, amount |-> a])
    /\ unread' = Bump(unread, DamageReaders, 1)
    /\ UNCHANGED <<kind, posz, levelVars, mapVars, spawnVars, hitbox, dir, alive, pos, vel, health, collisionEv, healEv, deathEv, done,
                   registered, despawnCmd, panicked, overflowChecks, keys, dt, frame, last>>

SendHeal ==
    /\ ~panicked
    /\ "health_system" \in registered
    /\ Len(damageEv.evs) + Len(healEv.evs) < MaxEvents
    /\ \E e \in Targets, a \in Amounts :
         healEv' = EventsSend(healEv, [id |-> e, amount |-> a])
    /\ unread' = Bump(unread, HealReaders, 1)
    /\ UNCHANGED <<kind, posz, levelVars, mapVars, spawnVars, hitbox, dir, alive, pos, vel, health, collisionEv, damageEv, deathEv, done,
                   registered, despawnCmd, panicked, overflowChecks, keys, dt, frame, last>>

(***************************************************************************)
(* End of the frame: the stage applies the queued commands, and the next   *)
(* frame starts by updating every event queue.                             *)
(***************************************************************************)
NoLast == [deaths |-> <<>>, diedEarlier |-> {}]

SeqRange(s) == {s[i] : i \in 1..Len(s)}

\* get_direction_from_keyboard before normalisation, for the keys held in a frame:
\* none, one key, two keys
KeyDirections == {[x |-> 0, y |-> 0], [x |-> 1, y |-> 0], [x |-> -1, y |-> 1]}

\* the Update stage is over: no transition is scheduled or under way and every
\* system that runs in the current state has run
UpdateStageDone ==
    /\ nextState = "none"
    /\ ~entering
    /\ done = {s \in registered : RunsInState(s)}

NextFrame ==
    /\ ~panicked
    /\ UpdateStageDone
    /\ frame < MaxFrames
    /\ alive' = [e \in Ent |-> alive[e] /\ e \notin despawnCmd]
    /\ despawnCmd' = {}
    /\ collisionEv' = EventsUpdate(collisionEv)
    /\ damageEv' = EventsUpdate(damageEv)
    /\ healEv' = EventsUpdate(healEv)
    /\ deathEv' = EventsUpdate(deathEv)
    /\ unread' = Cap(Cap(Cap(Cap(unread, CollisionReaders, EventsUpdate(collisionEv)),
                             DamageReaders, EventsUpdate(damageEv)),
                         HealReaders, EventsUpdate(healEv)),
                     DeathReaders, EventsUpdate(deathEv))
    /\ done' = {}
    /\ last' = [NoLast EXCEPT !.diedEarlier = last.diedEarlier \cup SeqRange(last.deaths)]
    /\ dt' \in IF "move_system" \in registered THEN 1..MaxDt ELSE {dt}
    /\ keys' \in IF "control_player" \in registered THEN KeyDirections ELSE {keys}
    /\ frame' = frame + 1
    /\ UNCHANGED <<kind, posz, levelVars, mapVars, spawnVars, hitbox, dir, pos, vel, health, registered, panicked, overflowChecks>>

(***************************************************************************)
(* The health subsystem on its own: HealthPlugin and the death consumers.  *)
(***************************************************************************)
HealthSystems == {"health_system", "despawn_dead_enemies",
                  "despawn_bullets_after_collision", "player_dies"}

\* one player, then enemies and enemy bullets
HealthKind(e) ==
    IF e = 1 THEN "PlayerBundle"
    ELSE IF e % 2 = 0 THEN "EnemyBundle" ELSE "EnemyBulletBundle"

InitHealth ==
    /\ kind = [e \in Ent |-> HealthKind(e)]
    /\ hitbox = [e \in Ent |-> HitboxOfKind(kind[e])]
    /\ dir = [e \in Ent |-> Origin]
    /\ alive = [e \in Ent |-> TRUE]
    /\ pos = [e \in Ent |-> Origin]
    /\ vel = [e \in Ent |-> Origin]
    /\ health = [e \in Ent |-> new_health(MaxHealth)]
    /\ collisionEv = EmptyEvents
    /\ damageEv = EmptyEvents
    /\ healEv = EmptyEvents
    /\ deathEv = EmptyEvents
    /\ unread = [r \in Readers |-> 0]
    /\ done = {}
    /\ registered = HealthSystems
    /\ despawnCmd = {}
    /\ panicked = FALSE
    /\ overflowChecks \in BOOLEAN
    /\ keys = Origin
    /\ dt = 1
    /\ frame = 0
    /\ last = NoLast
    /\ posz = [e \in Ent |-> ZOfKind(kind[e])]
    /\ MapIdle
    /\ SpawnIdle
    /\ LevelIdle

NextHealth ==
    \/ SendDamage
    \/ SendHeal
    \/ health_system
    \/ despawn_dead_enemies
    \/ despawn_bullets_after_collision
    \/ player_dies
    \/ NextFrame

SpecHealth == InitHealth /\ [][NextHealth]_vars

(***************************************************************************)
(* Properties of the health subsystem.                                     *)
(***************************************************************************)
\* the events a step appended to a queue
SentBy(before, after) == SubSeq(after.evs, Len(before.evs) + 1, Len(after.evs))

\* the events of a queue sent in this frame
SentThisFrame(buf) == SubSeq(buf.evs, buf.old + 1, Len(buf.evs))

CountFor(evs, e) == Cardinality({i \in 1..Len(evs) : evs[i].id = e})

RECURSIVE SumFor(_, _)
SumFor(evs, e) ==
    IF evs = <<>> THEN 0
    ELSE (IF Head(evs).id = e THEN Head(evs).amount ELSE 0) + SumFor(Tail(evs), e)

\* this step is a run of system s
RunOf(s) == s \notin done /\ s \in done'

\* C1: for every entity with HealthData and every sequence of heal and damage
\* events processed over any number of frames, 0 <= current_health <= max_health.
C1_HealthBounds ==
    \A e \in Ent : HasHealth(kind[e]) =>
        /\ health[e].current_health >= 0
        /\ health[e].current_health <= health[e].max_health

\* health_system has applied a heal and a damage event to one entity, which is
\* left strictly between 0 and max_health
C1_Witness ==
    /\ "health_system" \in done
    /\ unread["health_system.heal"] = 0
    /\ unread["health_system.damage"] = 0
    /\ \E e \in Ent :
         /\ alive[e]
         /\ \E i \in 1..Len(healEv.evs) : healEv.evs[i].id = e /\ healEv.evs[i].amount > 0
         /\ \E i \in 1..Len(damageEv.evs) : damageEv.evs[i].id = e /\ damageEv.evs[i].amount > 0
         /\ health[e].current_health > 0
         /\ health[e].current_health < health[e].max_health

\* C2: when the damage events one run of health_system processes for an entity
\* bring its health to zero, that run sends exactly one DeathEvent for it and
\* leaves current_health at 0.
C2_OneDeathPerRun ==
    [][RunOf("health_system") /\ ~panicked' =>
        LET heals == EventsUnread(healEv, unread["health_system.heal"])
            dmgs == EventsUnread(damageEv, unread["health_system.damage"])
            healed == ApplyHeals([h |-> health, panic |-> FALSE], heals).h
        IN \A e \in Ent :
              (HealthQuery(e) /\ CountFor(dmgs, e) >= 1
                 /\ SumFor(dmgs, e) >= healed[e].current_health)
              => /\ CountFor(SentBy(deathEv, deathEv'), e) = 1
                 /\ health'[e].current_health = 0]_vars

\* two damage events for one entity were processed in this run, its health is
\* zero and its DeathEvent is in the queue
C2_Witness ==
    /\ "health_system" \in done
    /\ \E e \in Ent :
         /\ CountFor(SentThisFrame(damageEv), e) >= 2
         /\ HealthQuery(e)
         /\ health[e].current_health = 0
         /\ CountFor(SentThisFrame(deathEv), e) = 1

\* C3: once a DeathEvent was emitted for an entity in some frame, no DeathEvent
\* is emitted for it in any later frame.
C3_DeathOnceEver ==
    \A i \in 1..Len(last.deaths) : last.deaths[i] \notin last.diedEarlier

(***************************************************************************)
(* move_system on its own: MoveSystemPlugin, started from a scene as the   *)
(* spawners and the ModifyVelocity systems of a frame can leave it.        *)
(***************************************************************************)
MoveSystems == {"clear_velocity_vector", "move_system"}

\* the kinds, positions and velocities the scenes are drawn from
SceneKinds(e) == IF e <= 2 THEN Kinds ELSE {"MapObstacle", "EnemyBundle"}

ScenePositions(e) ==
    IF e = 1 THEN {Vec2(-10, -10), Vec2(-10, 10)}
    ELSE IF e = 2 THEN {Vec2(-10, -10), Vec2(10, -10), Vec2(-10, 10), Vec2(10, 10), Vec2(60, 10)}
    ELSE {Vec2(10, 10), Vec2(10, -10)}

SceneVelocities(e) ==
    IF e = 1 THEN {Origin, Vec2(200, 0)}
    ELSE IF e = 2 THEN {Origin, Vec2(-200, 0), Vec2(0, -200)}
    ELSE {Origin}

InitMove ==
    /\ kind \in {k \in [Ent -> Kinds] :
                    /\ \A e \in Ent : k[e] \in SceneKinds(e)
                    /\ Cardinality({e \in Ent : k[e] = "PlayerBundle"}) <= 1}
    /\ hitbox = [e \in Ent |-> HitboxOfKind(kind[e])]
    /\ dir = [e \in Ent |-> Origin]
    /\ alive = [e \in Ent |-> TRUE]
    /\ pos \in {p \in [Ent -> UNION {ScenePositions(e) : e \in Ent}] :
                   \A e \in Ent : p[e] \in ScenePositions(e)}
    /\ vel \in {v \in [Ent -> UNION {SceneVelocities(e) : e \in Ent}] :
                   \A e \in Ent : v[e] \in IF HasVelocity(kind[e])
                                           THEN SceneVelocities(e) ELSE {Origin}}
    /\ health = [e \in Ent |-> new_health(HealthOfKind(kind[e]))]
    /\ collisionEv = EmptyEvents
    /\ damageEv = EmptyEvents
    /\ healEv = EmptyEvents
    /\ deathEv = EmptyEvents
    /\ unread = [r \in Readers |-> 0]
    /\ done = {"clear_velocity_vector"}
    /\ registered = MoveSystems
    /\ despawnCmd = {}
    /\ panicked = FALSE
    /\ overflowChecks = FALSE
    /\ keys = Origin
    /\ dt = 1
    /\ frame = 0
    /\ last = NoLast
    /\ posz = [e \in Ent |-> ZOfKind(kind[e])]
    /\ MapIdle
    /\ SpawnIdle
    /\ LevelIdle

NextMove ==
    \/ clear_velocity_vector
    \/ move_system
    \/ NextFrame

SpecMove == InitMove /\ [][NextMove]_vars

(***************************************************************************)
(* Properties of move_system.                                              *)
(***************************************************************************)
\* the number of events (object = a, collided_with = b) in evs
CountPair(evs, a, b) ==
    Cardinality({i \in 1..Len(evs) : evs[i].object_id = a /\ evs[i].collided_with_id = b})

TypeOf(e) == TypeOfKind(kind[e])

\* the projected rectangles of a and b overlap
ProjectedOverlap(a, b) ==
    collide(future_position(a), hitbox[a], future_position(b), hitbox[b])

\* C4: in one run of move_system every pair detected as overlapping yields exactly
\* the two events (A, B) and (B, A), each with the types of both entities, and no
\* pair is reported more than once.
C4_CollisionSymmetry ==
    [][RunOf("move_system") =>
        LET sent == SentBy(collisionEv, collisionEv')
        IN /\ \A a, b \in Ent :
                /\ CountPair(sent, a, b) = CountPair(sent, b, a)
                /\ CountPair(sent, a, b) <= 1
                /\ CountPair(sent, a, b) = 1 => a # b /\ ProjectedOverlap(a, b)
           /\ \A i \in 1..Len(sent) :
                /\ sent[i].object_type = TypeOf(sent[i].object_id)
                /\ sent[i].collided_with_type = TypeOf(sent[i].collided_with_id)]_vars

\* move_system has reported a pair of entities of different types in this frame
C4_Witness ==
    /\ "move_system" \in done
    /\ \E a, b \in Ent :
         /\ TypeOf(a) # TypeOf(b)
         /\ CountPair(SentThisFrame(collisionEv), a, b) = 1
         /\ CountPair(SentThisFrame(collisionEv), b, a) = 1

\* C5: with every hitbox extent smaller than ZONE_SIZE, any two non-floor entities
\* with a non-ignored type pair whose projected rectangles overlap are reported.
C5_BroadPhaseComplete ==
    [][RunOf("move_system") =>
        \A a, b \in Ent :
            (/\ a # b
             /\ InGrid(a) /\ InGrid(b)
             /\ \A e \in {a, b} : hitbox[e].w < ZONE_SIZE /\ hitbox[e].h < ZONE_SIZE
             /\ ~ignore_collision(TypeOf(a), TypeOf(b))
             /\ ProjectedOverlap(a, b))
            => CountPair(SentBy(collisionEv, collisionEv'), a, b) = 1]_vars

\* C6: if the type pair of A and B is neither ignored nor pass-through and the
\* pair is detected as overlapping, neither A nor B is moved by this run.
C6_BlockingCorrect ==
    [][RunOf("move_system") =>
        \A a, b \in Ent :
            (/\ CountPair(SentBy(collisionEv, collisionEv'), a, b) >= 1
             /\ ~ignore_collision(TypeOf(a), TypeOf(b))
             /\ ~allow_overlap(TypeOf(a), TypeOf(b)))
            => pos'[a] = pos[a] /\ pos'[b] = pos[b]]_vars

\* a reported pair in which both entities had a velocity to move by: one pair
\* the policy table leaves unspecified
C6_Witness ==
    /\ "move_system" \in done
    /\ \E a, b \in Ent :
         /\ CountPair(SentThisFrame(collisionEv), a, b) = 1
         /\ {TypeOf(a), TypeOf(b)} = {"Player", "Enemy"}
         /\ vel[a] # Origin /\ vel[b] # Origin

\* the pairs the claim lists as ignored
ListedIgnored(t1, t2) ==
    {t1, t2} \in {{"Enemy"}, {"Player", "PlayerBullet"}, {"Enemy", "EnemyBullet"},
                  {"Player", "Floor"}, {"Enemy", "Floor"},
                  {"PlayerBullet", "Floor"}, {"EnemyBullet", "Floor"}}

\* C7: for a type pair classified as ignore, move_system emits no CollisionEvent
\* and the pair blocks neither entity, even when the rectangles overlap: an entity
\* all of whose overlaps are with ignored partners is moved to its projection.
C7_IgnorePolicy ==
    [][RunOf("move_system") =>
        \A a \in Ent : alive[a] =>
            /\ \A b \in Ent \ {a} :
                 (alive[b] /\ ListedIgnored(TypeOf(a), TypeOf(b)))
                 => CountPair(SentBy(collisionEv, collisionEv'), a, b) = 0
            /\ (\A b \in Ent \ {a} :
                  alive[b] => \/ ListedIgnored(TypeOf(a), TypeOf(b))
                              \/ ~ProjectedOverlap(a, b))
               => pos'[a] = future_position(a)]_vars

\* after a run, two entities of an ignored pair overlap, one of them has moved
\* there with its velocity, and no event connects them
C7_Witness ==
    /\ "move_system" \in done
    /\ \E a, b \in Ent :
         /\ a # b
         /\ ListedIgnored(TypeOf(a), TypeOf(b))
         /\ TypeOf(a) # "Floor" /\ TypeOf(b) # "Floor"
         /\ vel[a] # Origin
         /\ collide(pos[a], hitbox[a], pos[b], hitbox[b])
         /\ CountPair(SentThisFrame(collisionEv), a, b) = 0
         /\ \A c \in Ent : CountPair(SentThisFrame(collisionEv), a, c) = 0

\* C8: when a projectile overlaps its target (PlayerBullet x Enemy, EnemyBullet x
\* Player) both events are emitted and both entities still advance to their
\* projected positions.
C8_PassThrough ==
    [][RunOf("move_system") =>
        \A a, b \in Ent :
            (/\ CountPair(SentBy(collisionEv, collisionEv'), a, b) >= 1
             /\ {TypeOf(a), TypeOf(b)} \in {{"PlayerBullet", "Enemy"}, {"EnemyBullet", "Player"}})
            => /\ CountPair(SentBy(collisionEv, collisionEv'), b, a) >= 1
               /\ pos'[a] = future_position(a)
               /\ pos'[b] = future_position(b)]_vars

(***************************************************************************)
(* The whole pipeline: every system of GamePlugin's plugins, in any order  *)
(* the labels allow, on a scene with a player, an enemy and bullets.       *)
(***************************************************************************)
\* a player, an enemy, then bullets of either side
PipelineKinds(e) ==
    IF e = 1 THEN {"PlayerBundle"}
    ELSE IF e = 2 THEN {"EnemyBundle"}
    ELSE {"BulletBundle", "EnemyBulletBundle"}

\* where the scene puts an entity of kind k, and the direction its bullet was shot in
ScenePosition(k) ==
    CASE k = "PlayerBundle" -> Vec2(0, 0)
      [] k = "EnemyBundle" -> Vec2(40, 0)
      [] k = "BulletBundle" -> Vec2(30, 0)
      [] OTHER -> Vec2(10, 0)

SceneDirection(k) ==
    CASE k = "BulletBundle" -> Vec2(PLAYER_BULLET_SPEED, 0)
      [] k = "EnemyBulletBundle" -> Vec2(-BULLET_START_SPEED, 0)
      [] OTHER -> Origin

Init ==
    /\ kind \in {k \in [Ent -> Kinds] : \A e \in Ent : k[e] \in PipelineKinds(e)}
    /\ hitbox = [e \in Ent |-> HitboxOfKind(kind[e])]
    /\ dir = [e \in Ent |-> SceneDirection(kind[e])]
    /\ alive = [e \in Ent |-> TRUE]
    /\ pos = [e \in Ent |-> ScenePosition(kind[e])]
    /\ vel = [e \in Ent |-> Origin]
    /\ \E wounded \in BOOLEAN :
         health = [e \in Ent |->
                     IF wounded /\ kind[e] = "EnemyBundle"
                     THEN [new_health(HealthOfKind(kind[e])) EXCEPT !.current_health = 1]
                     ELSE new_health(HealthOfKind(kind[e]))]
    /\ collisionEv = EmptyEvents
    /\ damageEv = EmptyEvents
    /\ healEv = EmptyEvents
    /\ deathEv = EmptyEvents
    /\ unread = [r \in Readers |-> 0]
    /\ done = {}
    /\ registered = Systems
    /\ despawnCmd = {}
    /\ panicked = FALSE
    /\ overflowChecks = FALSE
    /\ keys \in KeyDirections
    /\ dt = 1
    /\ frame = 0
    /\ last = NoLast
    /\ posz = [e \in Ent |-> ZOfKind(kind[e])]
    /\ MapIdle
    /\ SpawnIdle
    /\ LevelIdle

Next ==
    \/ clear_velocity_vector
    \/ control_player
    \/ player_bullet_movement
    \/ move_enemies
    \/ bullet_movement
    \/ move_system
    \/ player_on_collision_bullet
    \/ on_collision_bullet
    \/ enemies_take_damage
    \/ player_takes_damage
    \/ health_system
    \/ despawn_dead_enemies
    \/ despawn_bullets_after_collision
    \/ player_dies
    \/ NextFrame

Spec == Init /\ [][Next]_vars

(***************************************************************************)
(* Properties of the order of the systems.                                 *)
(***************************************************************************)
ModifyVelocitySystems == {"control_player", "move_enemies", "bullet_movement"}

\* the velocity the producers of this frame give e, each computed on its own
FrameVelocity(e) ==
    VecAdd(VecAdd(ControlPlayerVel(e), MoveEnemiesVel(e)),
           VecAdd(BulletVel(e, {"BulletMarker"}),
                  BulletVel(e, {"EnemyBulletMarker", "PlayerBulletMarker"})))

CollisionDamageSystems == {"on_collision_bullet", "enemies_take_damage", "player_takes_damage"}

\* C10: in every frame every system that turns CollisionEvents into TakeDamageEvents
\* runs after move_system and before health_system, so when health_system runs no
\* collision of this frame is still unread by one of them.
C10_CollisionEffectPhase ==
    [][/\ \A s \in CollisionDamageSystems :
            RunOf(s) => "move_system" \in done /\ "health_system" \notin done
       /\ RunOf("health_system") =>
            \A s \in CollisionDamageSystems : s \in done /\ unread[s] = 0
      ]_vars

(***************************************************************************)
(* Properties of the health pipeline.                                      *)
(***************************************************************************)
\* the registered systems that carry label l
Labelled(l) == {s \in registered : l \in Labels(s)}

\* C11: in every frame health_system runs after every system labelled ModifyHealth
\* and before every system labelled ReadDeaths, so a death consumer runs only when
\* every TakeDamageEvent of the frame has been applied.
C11_DeathPipeline ==
    [][/\ RunOf("health_system") =>
            /\ Labelled("ModifyHealth") \subseteq done
            /\ Labelled("ReadDeaths") \cap done = {}
       /\ \A s \in Labelled("ReadDeaths") :
            RunOf(s) => /\ "health_system" \in done
                        /\ Labelled("ModifyHealth") \subseteq done
                        /\ unread["health_system.damage"] = 0
      ]_vars

\* a collision of this frame was turned into damage, health_system brought the
\* enemy to zero and despawn_dead_enemies has queued its despawn
C11_Witness ==
    /\ {"enemies_take_damage", "health_system", "despawn_dead_enemies"} \subseteq done
    /\ \E e \in Ent :
         /\ kind[e] = "EnemyBundle"
         /\ CountFor(SentThisFrame(damageEv), e) >= 1
         /\ health[e].current_health = 0
         /\ CountFor(SentThisFrame(deathEv), e) = 1
         /\ e \in despawnCmd

(***************************************************************************)
(* Properties of the velocity accumulator.                                 *)
(***************************************************************************)
\* C12: after clear_velocity_vector has run, the VelocityVector of every tracked
\* entity is (0, 0) whatever it was at the end of the previous frame, and clearing
\* the result again changes nothing.
C12_Clearing ==
    [][RunOf("clear_velocity_vector") =>
        /\ \A e \in Ent : alive[e] /\ HasVelocity(kind[e]) => vel'[e] = Origin
        /\ ClearAll(vel') = vel'
      ]_vars

\* in a later frame the clear has run, no producer has run yet, and an entity that
\* was moved by its velocity in the frame before has a zero velocity
C12_Witness ==
    /\ frame >= 1
    /\ "clear_velocity_vector" \in done
    /\ Labelled("ModifyVelocity") \cap done = {}
    /\ \E e \in Ent :
         /\ alive[e] /\ HasVelocity(kind[e])
         /\ pos[e] # ScenePosition(kind[e])
         /\ vel[e] = Origin

\* what producer s adds to the velocity of e in this frame
Contribution(s, e) ==
    CASE s = "control_player" -> ControlPlayerVel(e)
      [] s = "move_enemies" -> MoveEnemiesVel(e)
      [] s = "player_bullet_movement" -> BulletVel(e, {"BulletMarker"})
      [] s = "bullet_movement" -> BulletVel(e, {"EnemyBulletMarker", "PlayerBulletMarker"})

\* the contribution of s if s has run in this frame, else nothing
Contributed(s, e) == IF s \in done THEN Contribution(s, e) ELSE Origin

\* C13: every producer only adds to the accumulator, so between the clear and
\* move_system the velocity of an entity is the sum of the contributions of the
\* producers that have run, whatever the order they ran in.
C13_Commutativity ==
    ("clear_velocity_vector" \in done /\ "move_system" \notin done) =>
        \A e \in Ent : alive[e] /\ HasVelocity(kind[e]) =>
            /\ vel[e].x = Contributed("control_player", e).x + Contributed("move_enemies", e).x
                           + Contributed("player_bullet_movement", e).x
                           + Contributed("bullet_movement", e).x
            /\ vel[e].y = Contributed("control_player", e).y + Contributed("move_enemies", e).y
                           + Contributed("player_bullet_movement", e).y
                           + Contributed("bullet_movement", e).y

\* all producers have run before move_system and the player, the enemy and a
\* bullet each carry a velocity
C13_Witness ==
    /\ Labelled("ModifyVelocity") \subseteq done
    /\ Cardinality(Labelled("ModifyVelocity")) = 4
    /\ "move_system" \notin done
    /\ \E p, q, b \in Ent :
         /\ kind[p] = "PlayerBundle" /\ vel[p] # Origin
         /\ kind[q] = "EnemyBundle" /\ vel[q] # Origin
         /\ kind[b] \in {"BulletBundle", "EnemyBulletBundle"} /\ vel[b] # Origin

(***************************************************************************)
(* Properties of one run of health_system.                                 *)
(***************************************************************************)
\* the events of evs that name entity e
EventsFor(evs, e) == SelectSeq(evs, LAMBDA ev : ev.id = e)

\* hd after the heals evs, one after the other
RECURSIVE HealAll(_, _)
HealAll(hd, evs) == IF evs = <<>> THEN hd ELSE HealAll(heal(hd, Head(evs).amount), Tail(evs))

\* hd after the damages evs, one after the other
RECURSIVE DamageAll(_, _)
DamageAll(hd, evs) ==
    IF evs = <<>> THEN hd ELSE DamageAll(take_damage(hd, Head(evs).amount), Tail(evs))

\* C14: in one run of health_system every HealEvent the run reads is applied before
\* any TakeDamageEvent it reads, in whatever order the events were sent: the
\* HealthData of an entity is its heals applied to the old value, then its damages.
C14_HealBeforeDamage ==
    [][RunOf("health_system") /\ ~panicked' =>
        LET heals == EventsUnread(healEv, unread["health_system.heal"])
            dmgs == EventsUnread(damageEv, unread["health_system.damage"])
        IN \A e \in Ent : alive[e] /\ HasHealth(kind[e]) =>
              health'[e] = DamageAll(HealAll(health[e], EventsFor(heals, e)),
                                     EventsFor(dmgs, e))
      ]_vars

\* in the first frame an entity at full health got a heal of 1 and a damage of 1:
\* the heal was clamped away and the damage left it one below max_health
C14_Witness ==
    /\ frame = 0
    /\ "health_system" \in done
    /\ unread["health_system.heal"] = 0
    /\ unread["health_system.damage"] = 0
    /\ \E e \in Ent :
         /\ alive[e]
         /\ EventsFor(healEv.evs, e) = <<[id |-> e, amount |-> 1]>>
         /\ EventsFor(damageEv.evs, e) = <<[id |-> e, amount |-> 1]>>
         /\ health[e].current_health = health[e].max_health - 1

\* C15: heal(amount) sets current_health to min(max_health, current_health + amount)
\* for every current_health, max_health and amount: an entity whose only event in a
\* run of health_system is one HealEvent ends the run at that value.
C15_HealClamps ==
    [][RunOf("health_system") \/ (~panicked /\ panicked') =>
        LET heals == EventsUnread(healEv, unread["health_system.heal"])
            dmgs == EventsUnread(damageEv, unread["health_system.damage"])
        IN \A e \in Ent :
              (/\ alive[e] /\ HasHealth(kind[e])
               /\ Len(EventsFor(heals, e)) = 1
               /\ EventsFor(dmgs, e) = <<>>)
              => /\ ~panicked'
                 /\ health'[e].current_health =
                        Min(health[e].max_health,
                            health[e].current_health + EventsFor(heals, e)[1].amount)
      ]_vars

\* C16: take_damage(amount) sets current_health to 0 and reports death when
\* current_health <= amount, and otherwise subtracts exactly amount and reports no
\* death: an entity whose only event in a run is one TakeDamageEvent ends the run so.
C16_TakeDamage ==
    [][RunOf("health_system") /\ ~panicked' =>
        LET heals == EventsUnread(healEv, unread["health_system.heal"])
            dmgs == EventsUnread(damageEv, unread["health_system.damage"])
        IN \A e \in Ent :
              (/\ alive[e] /\ HasHealth(kind[e])
               /\ EventsFor(heals, e) = <<>>
               /\ Len(EventsFor(dmgs, e)) = 1)
              => LET amount == EventsFor(dmgs, e)[1].amount
                     deaths == CountFor(SentBy(deathEv, deathEv'), e)
                 IN /\ health'[e].max_health = health[e].max_health
                    /\ IF health[e].current_health <= amount
                       THEN health'[e].current_health = 0 /\ deaths = 1
                       ELSE /\ health'[e].current_health = health[e].current_health - amount
                            /\ deaths = 0
      ]_vars

\* in the first frame one entity took a damage below its health and lives on, and
\* another took a damage above its health, is at zero and has its DeathEvent
C16_Witness ==
    /\ frame = 0
    /\ "health_system" \in done
    /\ healEv.evs = <<>>
    /\ \E a, b \in Ent :
         /\ EventsFor(damageEv.evs, a) = <<[id |-> a, amount |-> 1]>>
         /\ health[a].current_health = health[a].max_health - 1
         /\ health[a].current_health > 0
         /\ CountFor(deathEv.evs, a) = 0
         /\ EventsFor(damageEv.evs, b) = <<[id |-> b, amount |-> USIZE_MAX]>>
         /\ health[b].current_health = 0
         /\ CountFor(deathEv.evs, b) = 1

\* C17: current_health reaches 0 at most once in the life of an entity, and after
\* the frame in which it reached 0 no HealEvent or TakeDamageEvent changes its
\* HealthData: the HealthData of an entity that died in an earlier frame stays.
C17_ZeroIsFinal ==
    [][\A e \in Ent : e \in last.diedEarlier => health'[e] = health[e]]_vars

(***************************************************************************)
(* Properties of the removal of entities.                                  *)
(***************************************************************************)
\* C18: an entity that carries HealthData is despawned only by a ReadDeaths
\* consumer that is reading a DeathEvent for it, and health_system itself removes
\* nothing.
C18_DeathIsOnlyRemoval ==
    [][/\ \A e \in Ent :
            (HasHealth(kind[e]) /\ e \in despawnCmd' \ despawnCmd) =>
                \E s \in Labelled("ReadDeaths") :
                    /\ RunOf(s)
                    /\ CountFor(EventsUnread(deathEv, unread[s]), e) >= 1
       /\ \A e \in Ent :
            (HasHealth(kind[e]) /\ alive[e] /\ ~alive'[e]) => e \in despawnCmd
       /\ RunOf("health_system") => despawnCmd' = despawnCmd /\ alive' = alive
      ]_vars

\* an enemy bullet that hit the player was brought to zero, and the despawn queued
\* by its death consumer has removed it
C18_Witness ==
    \E e \in Ent :
        /\ kind[e] = "EnemyBulletBundle"
        /\ ~alive[e]
        /\ health[e].current_health = 0
        /\ CountFor(deathEv.evs, e) >= 1

\* the event names an entity that is spawned and carries HealthData
Tracked(ev) == alive[ev.id] /\ HasHealth(kind[ev.id])

\* C19: a HealEvent or TakeDamageEvent whose id has no HealthData changes no
\* HealthData, emits no DeathEvent and does not stop the events after it: a run of
\* health_system ends as if the event had not been in the queue.
C19_StaleSkipped ==
    [][RunOf("health_system") /\ ~panicked' =>
        LET heals == EventsUnread(healEv, unread["health_system.heal"])
            dmgs == EventsUnread(damageEv, unread["health_system.damage"])
            r == Resolve(health, SelectSeq(heals, Tracked), SelectSeq(dmgs, Tracked))
        IN /\ health' = r.h
           /\ {ev.id : ev \in SeqRange(SentBy(deathEv, deathEv'))} = r.dead
           /\ \A e \in Ent :
                 ~(alive[e] /\ HasHealth(kind[e])) =>
                    /\ health'[e] = health[e]
                    /\ CountFor(SentBy(deathEv, deathEv'), e) = 0
      ]_vars

\* a run has read a TakeDamageEvent for a despawned entity and, after it in the
\* queue, one for a live entity, which lost health
C19_Witness ==
    /\ "health_system" \in done
    /\ unread["health_system.damage"] = 0
    /\ LET sent == SentThisFrame(damageEv)
       IN \E i, j \in 1..Len(sent) :
            /\ i < j
            /\ ~alive[sent[i].id]
            /\ alive[sent[j].id] /\ sent[j].amount >= 1
            /\ health[sent[j].id].current_health < health[sent[j].id].max_health

(***************************************************************************)
(* Properties of the zone grid.                                            *)
(***************************************************************************)
\* C20: move_system places each non-floor entity in the zone of its projected
\* position (current position + velocity * delta_time), not of its current one.
C20_BucketByProjection ==
    [][RunOf("move_system") =>
        \A e \in Ent : InGrid(e) =>
            e \in SeqRange(ZoneContent(get_zone(future_position(e))))
      ]_vars

(***************************************************************************)
(* move_system on the scenes of two entities facing each other on the      *)
(* x-axis: a player at the origin and a bullet, an enemy or an obstacle at  *)
(* some distance, over a floor tile.                                       *)
(***************************************************************************)
ScenarioKinds(e) ==
    IF e = 1 THEN {"PlayerBundle"}
    ELSE IF e = 2 THEN {"EnemyBulletBundle", "EnemyBundle", "MapObstacle"}
    ELSE {"MapFloor"}

ScenarioDistances == {15, 20, 25, 30, 40}

ScenarioVelocities == {Origin, Vec2(-50, 0), Vec2(-100, 0)}

InitScenario ==
    /\ kind \in {k \in [Ent -> Kinds] : \A e \in Ent : k[e] \in ScenarioKinds(e)}
    /\ hitbox = [e \in Ent |-> HitboxOfKind(kind[e])]
    /\ dir = [e \in Ent |-> Origin]
    /\ alive = [e \in Ent |-> TRUE]
    /\ \E d \in ScenarioDistances : pos = [e \in Ent |-> IF e = 2 THEN Vec2(d, 0) ELSE Origin]
    /\ \E v \in ScenarioVelocities :
         vel = [e \in Ent |-> IF e = 2 /\ HasVelocity(kind[e]) THEN v ELSE Origin]
    /\ health = [e \in Ent |-> new_health(HealthOfKind(kind[e]))]
    /\ collisionEv = EmptyEvents
    /\ damageEv = EmptyEvents
    /\ healEv = EmptyEvents
    /\ deathEv = EmptyEvents
    /\ unread = [r \in Readers |-> 0]
    /\ done = {"clear_velocity_vector"}
    /\ registered = MoveSystems
    /\ despawnCmd = {}
    /\ panicked = FALSE
    /\ overflowChecks = FALSE
    /\ keys = Origin
    /\ dt = 1
    /\ frame = 0
    /\ last = NoLast
    /\ posz = [e \in Ent |-> ZOfKind(kind[e])]
    /\ MapIdle
    /\ SpawnIdle
    /\ LevelIdle

SpecScenario == InitScenario /\ [][NextMove]_vars

\* a Player (30, 30) at (0, 0) and an EnemyBullet (5, 5) at (25, 0) with velocity v,
\* delta_time 0.1
ScenarioB(v) ==
    /\ alive[1] /\ kind[1] = "PlayerBundle" /\ hitbox[1] = Rectangle(30, 30)
    /\ pos[1] = Vec2(0, 0)
    /\ alive[2] /\ kind[2] = "EnemyBulletBundle" /\ hitbox[2] = Rectangle(5, 5)
    /\ pos[2] = Vec2(25, 0) /\ vel[2] = v
    /\ dt = 1

\* C21 as stated: in scenario B with velocity (-50, 0) the projected position
\* (20, 0) of the bullet is detected as overlapping the player and move_system
\* emits the two CollisionEvents.
C21_ScenarioB ==
    [][RunOf("move_system") /\ ScenarioB(Vec2(-50, 0)) =>
        /\ future_position(2) = Vec2(20, 0)
        /\ check_collision(hitbox[2], future_position(2), hitbox[1], future_position(1))
        /\ CountPair(SentBy(collisionEv, collisionEv'), 1, 2) = 1
        /\ CountPair(SentBy(collisionEv, collisionEv'), 2, 1) = 1
      ]_vars

\* C21 amended: with velocity (-50, 0) the projected position (20, 0) leaves a gap
\* (the player ends at 15, the bullet starts at 17.5): no overlap, no event, and
\* the bullet moves; with velocity (-100, 0) the projected position (15, 0)
\* overlaps and move_system emits exactly the two CollisionEvents.
C21_ScenarioB_Amended ==
    [][RunOf("move_system") =>
        /\ ScenarioB(Vec2(-50, 0)) =>
              /\ future_position(2) = Vec2(20, 0)
              /\ ~check_collision(hitbox[2], future_position(2), hitbox[1], future_position(1))
              /\ SentBy(collisionEv, collisionEv') = <<>>
              /\ pos'[2] = Vec2(20, 0)
        /\ ScenarioB(Vec2(-100, 0)) =>
              /\ future_position(2) = Vec2(15, 0)
              /\ check_collision(hitbox[2], future_position(2), hitbox[1], future_position(1))
              /\ Len(SentBy(collisionEv, collisionEv')) = 2
              /\ CountPair(SentBy(collisionEv, collisionEv'), 1, 2) = 1
              /\ CountPair(SentBy(collisionEv, collisionEv'), 2, 1) = 1
      ]_vars

\* move_system has run on scenario B with velocity (-100, 0): both events are in
\* the queue
C21_Witness ==
    /\ frame = 0
    /\ "move_system" \in done
    /\ ScenarioB(Vec2(-100, 0))
    /\ CountPair(SentThisFrame(collisionEv), 1, 2) = 1
    /\ CountPair(SentThisFrame(collisionEv), 2, 1) = 1

(***************************************************************************)
(* Properties of the systems that map collisions to damage.                *)
(***************************************************************************)
\* the number of events of evs equal to ev
CountEqual(evs, ev) == Cardinality({i \in 1..Len(evs) : evs[i] = ev})

\* the number of events of evs with object a of type ta and collided_with of type tb
CountTyped(evs, a, ta, tb) ==
    Cardinality({i \in 1..Len(evs) : /\ evs[i].object_id = a
                                      /\ evs[i].object_type = ta
                                      /\ evs[i].collided_with_type = tb})

\* C22: for every CollisionEvent whose object is the Player and whose
\* collided_with is an EnemyBullet, player_takes_damage sends a
\* TakeDamageEvent{player, amount 1}.
C22_PlayerDamageMapping ==
    [][RunOf("player_takes_damage") =>
        LET evs == EventsUnread(collisionEv, unread["player_takes_damage"])
            sent == SentBy(damageEv, damageEv')
        IN \A p \in Ent : alive[p] =>
              CountEqual(sent, TakeDamageEvent(p, 1))
                  >= CountTyped(evs, p, "Player", "EnemyBullet")
      ]_vars

\* C23: enemies_take_damage sends exactly one TakeDamageEvent{enemy, 1} for each
\* CollisionEvent with object_type Enemy and collided_with_type PlayerBullet whose
\* object is a live enemy, and nothing for the reverse event or any other pair.
C23_EnemyDamageDirectional ==
    [][RunOf("enemies_take_damage") =>
        LET evs == EventsUnread(collisionEv, unread["enemies_take_damage"])
            sent == SentBy(damageEv, damageEv')
        IN /\ \A i \in 1..Len(sent) : sent[i].amount = 1
           /\ \A e \in Ent :
                 CountFor(sent, e) =
                    IF alive[e] /\ kind[e] = "EnemyBundle"
                    THEN CountTyped(evs, e, "Enemy", "PlayerBullet") ELSE 0
      ]_vars

\* enemies_take_damage has read both events of an enemy hit by a player bullet:
\* one TakeDamageEvent for the enemy, none for the bullet
C23_Witness ==
    /\ {"move_system", "enemies_take_damage"} \subseteq done
    /\ unread["enemies_take_damage"] = 0
    /\ \E e, b \in Ent :
         /\ kind[e] = "EnemyBundle" /\ kind[b] = "BulletBundle"
         /\ CountPair(SentThisFrame(collisionEv), e, b) = 1
         /\ CountPair(SentThisFrame(collisionEv), b, e) = 1
         /\ CountEqual(SentThisFrame(damageEv), TakeDamageEvent(e, 1)) = 1
         /\ CountFor(SentThisFrame(damageEv), b) = 0

(***************************************************************************)
(* Properties of the narrow phase and of the integration step.             *)
(***************************************************************************)
Abs(n) == IF n >= 0 THEN n ELSE -n

\* the projected rectangles of a and b have no interior point in common: on one
\* axis the centres are at least half the sum of the extents apart
Apart(a, b) ==
    \/ 2 * Abs(future_position(a).x - future_position(b).x) >= hitbox[a].w + hitbox[b].w
    \/ 2 * Abs(future_position(a).y - future_position(b).y) >= hitbox[a].h + hitbox[b].h

\* C24: if the projected rectangles of two entities do not overlap, move_system
\* emits no CollisionEvent for the pair, and an entity that overlaps nobody is
\* not blocked.
C24_NoFalsePositives ==
    [][RunOf("move_system") =>
        \A a \in Ent : InGrid(a) =>
            /\ \A b \in Ent \ {a} :
                 (InGrid(b) /\ Apart(a, b)) =>
                    /\ CountPair(SentBy(collisionEv, collisionEv'), a, b) = 0
                    /\ CountPair(SentBy(collisionEv, collisionEv'), b, a) = 0
            /\ (\A b \in Ent \ {a} : InGrid(b) => Apart(a, b))
               => pos'[a] = future_position(a)
      ]_vars

\* move_system has run on two (30, 30) rectangles 40 apart on the x-axis with
\* zero velocity: there is no event
C24_Witness ==
    /\ frame = 0
    /\ "move_system" \in done
    /\ kind[1] = "PlayerBundle" /\ kind[2] \in {"EnemyBundle", "MapObstacle"}
    /\ hitbox[1] = Rectangle(30, 30) /\ hitbox[2] = Rectangle(30, 30)
    /\ pos[1] = Vec2(0, 0) /\ pos[2] = Vec2(40, 0)
    /\ vel[1] = Origin /\ vel[2] = Origin
    /\ collisionEv.evs = <<>>

\* the events of evs that name e as object or as collided_with
Involving(evs, e) ==
    {i \in 1..Len(evs) : evs[i].object_id = e \/ evs[i].collided_with_id = e}

\* C25: an entity of type Floor never appears in a CollisionEvent, never causes
\* another entity to be blocked, and is not moved by move_system.
C25_FloorExclusion ==
    [][RunOf("move_system") =>
        /\ \A f \in Ent :
             (alive[f] /\ TypeOf(f) = "Floor") =>
                /\ Involving(SentBy(collisionEv, collisionEv'), f) = {}
                /\ pos'[f] = pos[f]
        /\ \A a \in Ent :
             (/\ alive[a] /\ TypeOf(a) # "Floor"
              /\ \A b \in Ent \ {a} : (alive[b] /\ TypeOf(b) # "Floor") => Apart(a, b))
             => pos'[a] = future_position(a)
      ]_vars

\* move_system has moved an entity with a velocity onto a floor tile its
\* rectangle overlaps, and no event names the floor
C25_Witness ==
    /\ frame = 0
    /\ "move_system" \in done
    /\ \E f, a \in Ent :
         /\ TypeOf(f) = "Floor" /\ TypeOf(a) \in {"Player", "Enemy"}
         /\ vel[a] # Origin
         /\ pos[a] \notin ScenePositions(a)
         /\ collide(pos[a], hitbox[a], pos[f], hitbox[f])
         /\ Involving(collisionEv.evs, f) = {}

(***************************************************************************)
(* Properties of the event queues.                                         *)
(***************************************************************************)
\* the queue an EventReader reads
QueueOf(r) ==
    IF r \in CollisionReaders THEN collisionEv
    ELSE IF r \in DamageReaders THEN damageEv
    ELSE IF r \in HealReaders THEN healEv
    ELSE deathEv

\* C27: an event sent in frame N that its consumer has not read in frame N is
\* dropped: a consumer that runs reads only events sent in the running frame.
C27_NoBacklog ==
    [][\A r \in Readers :
          RunOf(ReaderSystem(r)) => unread[r] <= Len(QueueOf(r).evs) - QueueOf(r).old
      ]_vars

(***************************************************************************)
(* Properties of the blocked flags and of the final loop of move_system.   *)
(***************************************************************************)
\* the pair p is a collision that blocks its two objects
Blocking(p) ==
    /\ ~ignore_collision(TypeOf(p[1]), TypeOf(p[2]))
    /\ ~allow_overlap(TypeOf(p[1]), TypeOf(p[2]))
    /\ ProjectedOverlap(p[1], p[2])

\* the objects blocked by the first n pairs of the sequence pairs
BlockedUpTo(pairs, n) ==
    UNION {{pairs[i][1], pairs[i][2]} : i \in {j \in 1..n : Blocking(pairs[j])}}

\* C29: an entity marked blocked at some visited pair stays blocked whatever the
\* later pairs of the run are, and its position is the same after the run.
C29_BlockedMonotonic ==
    [][RunOf("move_system") =>
        LET visited == VisitedPairs
            final == CheckPairs([blocked |-> {}, events |-> <<>>], visited).blocked
        IN \A n \in 1..Len(visited) :
              \A e \in BlockedUpTo(visited, n) : e \in final /\ pos'[e] = pos[e]
      ]_vars

\* a moving enemy bullet was blocked by the player, the pair visited after that
\* (the bullet and an obstacle) did not collide, and the bullet is where it was
C29_Witness ==
    /\ frame = 0
    /\ "move_system" \in done
    /\ kind[1] = "PlayerBundle" /\ kind[2] = "EnemyBulletBundle" /\ kind[3] = "MapObstacle"
    /\ vel[1] = Origin /\ vel[2] = Vec2(-200, 0)
    /\ pos[1] = Vec2(-10, 10) /\ pos[2] = Vec2(10, 10) /\ pos[3] = Vec2(10, 10)
    /\ CountPair(collisionEv.evs, 1, 2) = 1
    /\ CountPair(collisionEv.evs, 2, 3) = 0

\* C30: after move_system every entity of the grid that was not blocked is at its
\* old position plus velocity times delta_time, an entity without VelocityVector
\* is where it was, and no Transform has another z.
C30_IntegrationStep ==
    [][RunOf("move_system") =>
        LET visited == VisitedPairs
            blocked == BlockedUpTo(visited, Len(visited))
        IN /\ \A e \in Ent :
                (alive[e] /\ TypeOf(e) # "Floor" /\ e \notin blocked /\ HasVelocity(kind[e]))
                => /\ 10 * (pos'[e].x - pos[e].x) <= vel[e].x * dt + 9
                   /\ 10 * (pos'[e].x - pos[e].x) >= vel[e].x * dt - 9
                   /\ (vel[e].x * dt) % 10 = 0 => 10 * (pos'[e].x - pos[e].x) = vel[e].x * dt
                   /\ 10 * (pos'[e].y - pos[e].y) <= vel[e].y * dt + 9
                   /\ 10 * (pos'[e].y - pos[e].y) >= vel[e].y * dt - 9
                   /\ (vel[e].y * dt) % 10 = 0 => 10 * (pos'[e].y - pos[e].y) = vel[e].y * dt
           /\ \A e \in Ent : ~HasVelocity(kind[e]) => pos'[e] = pos[e]
           /\ posz' = posz
      ]_vars

\* a moving entity that was not blocked has moved by velocity times delta_time
\* next to an obstacle that stayed where it was
C30_Witness ==
    /\ frame = 0
    /\ "move_system" \in done
    /\ \E e, o \in Ent :
         /\ HasVelocity(kind[e]) /\ vel[e] = Vec2(-200, 0)
         /\ pos[e] = Vec2(40, 10)
         /\ Involving(collisionEv.evs, e) = {}
         /\ kind[o] = "MapObstacle" /\ pos[o] \in ScenePositions(o)
         /\ posz[e] = ZOfKind(kind[e]) /\ posz[o] = 0

(***************************************************************************)
(* Maps: Parser::new of parser.rs and the systems of MapPlugin that load   *)
(* and render the map of a level.                                          *)
(***************************************************************************)
MaxMapEvents == 2

\* Parser::new: read_to_string(..).expect(..) panics when the file cannot be read,
\* a content that from_str rejects gives None
Parser_new(id) ==
    CASE files[id] = "missing" -> "panic"
      [] files[id] = "malformed" -> "None"
      [] OTHER -> "Some"

\* fetch_map: get_texture panics for an entity that is neither Obstacle nor Floor
fetch_map(id) ==
    CASE Parser_new(id) = "panic" -> "panic"
      [] Parser_new(id) = "None" -> "None"
      [] files[id] = "foreign" -> "panic"
      [] OTHER -> "Some"

\* the loop of load_map over the ids it reads: acc = [maps, panic]
RECURSIVE LoadAll(_, _)
LoadAll(acc, ids) ==
    IF ids = <<>> \/ acc.panic THEN acc
    ELSE IF Head(ids) \in acc.maps THEN LoadAll(acc, Tail(ids))
    ELSE CASE fetch_map(Head(ids)) = "panic" -> [acc EXCEPT !.panic = TRUE]
           [] fetch_map(Head(ids)) = "Some" ->
                LoadAll([acc EXCEPT !.maps = @ \cup {Head(ids)}], Tail(ids))
           [] OTHER -> LoadAll(acc, Tail(ids))

\* the events of the queue evs a reader that has read n of them still has to read
MapUnread(evs, n) == SubSeq(evs, n + 1, Len(evs))

\* spawn_map: on entering a level, asks for its map to be loaded and rendered
spawn_map ==
    /\ ~panicked
    /\ Len(loadMapEv) < MaxMapEvents
    /\ \E level \in Levels :
         /\ loadMapEv' = Append(loadMapEv, level)
         /\ renderMapEv' = Append(renderMapEv, level)
    /\ UNCHANGED <<kind, posz, levelVars, spawnVars, hitbox, dir, alive, pos, vel, health, collisionEv,
                   damageEv, healEv, deathEv, unread, done, registered, despawnCmd, panicked,
                   overflowChecks, keys, dt, frame, last, maps, files, mapRead, rendered>>

load_map ==
    /\ ~panicked
    /\ mapRead.load < Len(loadMapEv)
    /\ LET r == LoadAll([maps |-> maps, panic |-> FALSE], MapUnread(loadMapEv, mapRead.load))
       IN /\ maps' = r.maps
          /\ panicked' = r.panic
    /\ mapRead' = [mapRead EXCEPT !.load = Len(loadMapEv)]
    /\ UNCHANGED <<kind, posz, levelVars, spawnVars, hitbox, dir, alive, pos, vel, health, collisionEv,
                   damageEv, healEv, deathEv, unread, done, registered, despawnCmd,
                   overflowChecks, keys, dt, frame, last, files, loadMapEv, renderMapEv,
                   rendered>>

\* render_map: spawns the entities of every requested map the storage holds
render_map ==
    /\ ~panicked
    /\ mapRead.render < Len(renderMapEv)
    /\ rendered' = rendered \o SelectSeq(MapUnread(renderMapEv, mapRead.render),
                                         LAMBDA id : id \in maps)
    /\ mapRead' = [mapRead EXCEPT !.render = Len(renderMapEv)]
    /\ UNCHANGED <<kind, posz, levelVars, spawnVars, hitbox, dir, alive, pos, vel, health, collisionEv,
                   damageEv, healEv, deathEv, unread, done, registered, despawnCmd, panicked,
                   overflowChecks, keys, dt, frame, last, maps, files, loadMapEv,
                   renderMapEv>>

\* the world before anything is spawned
EmptyWorld ==
    /\ kind = [e \in Ent |-> "MapFloor"]
    /\ hitbox = [e \in Ent |-> HitboxOfKind(kind[e])]
    /\ dir = [e \in Ent |-> Origin]
    /\ alive = [e \in Ent |-> FALSE]
    /\ pos = [e \in Ent |-> Origin]
    /\ vel = [e \in Ent |-> Origin]
    /\ health = [e \in Ent |-> NoHealth]
    /\ posz = [e \in Ent |-> ZOfKind(kind[e])]

\* no system of the frame has run and the queues of the pipeline are empty
QuietPipeline ==
    /\ collisionEv = EmptyEvents
    /\ damageEv = EmptyEvents
    /\ healEv = EmptyEvents
    /\ deathEv = EmptyEvents
    /\ unread = [r \in Readers |-> 0]
    /\ done = {}
    /\ registered = {}
    /\ despawnCmd = {}
    /\ panicked = FALSE
    /\ overflowChecks = FALSE
    /\ keys = Origin
    /\ dt = 1
    /\ frame = 0
    /\ last = NoLast

InitMap ==
    /\ EmptyWorld
    /\ QuietPipeline
    /\ SpawnIdle
    /\ LevelIdle
    /\ maps = {}
    /\ files \in [Levels -> FileStates]
    /\ loadMapEv = <<>>
    /\ renderMapEv = <<>>
    /\ mapRead = [load |-> 0, render |-> 0]
    /\ rendered = <<>>

NextMap ==
    \/ spawn_map
    \/ load_map
    \/ render_map

SpecMap == InitMap /\ [][NextMap]_vars

\* C26: when load_map reads the id of a map whose file is missing or malformed, the
\* process keeps running, the storage is left without that id, and the maps the
\* storage held are still in it.
C26_ContentErrorsNotFatal ==
    [][mapRead'.load # mapRead.load =>
        LET ids == MapUnread(loadMapEv, mapRead.load)
            bad == {i \in 1..Len(ids) : files[ids[i]] \in {"missing", "malformed"}}
        IN /\ \A i \in bad : ids[i] \notin maps'
           /\ (bad # {} /\ \A i \in 1..Len(ids) : files[ids[i]] # "foreign") => ~panicked'
           /\ maps \subseteq maps'
      ]_vars

(***************************************************************************)
(* The enemy spawner: setup_enemies, spawn_enemies and its search for a    *)
(* free position, and the spawn commands applied at the end of the stage.  *)
(***************************************************************************)
\* SIMPLE_ENEMY_OPTIONS, SHOOTING_ENEMY_OPTIONS, SLOW_BIG_ENEMY_OPTIONS, BOSS_OPTIONS
EnemyOptions ==
    {SpawnEnemyOptions(30, 3), SpawnEnemyOptions(30, 5), SpawnEnemyOptions(50, 10),
     SpawnEnemyOptions(70, 20)}

\* SpawnEnemies { amount, options }
SpawnEnemies(amount, options) == [amount |-> amount, options |-> options]

\* entity slots nothing is spawned in
FreeSlots == SelectSeq(EntSeq, LAMBDA e : ~alive[e])

\* the requests a level can send: one or two of them, for as many enemies as
\* there are free entity slots
LevelRequests ==
    LET one == {SpawnEnemies(n, o) : n \in 1..Len(FreeSlots), o \in EnemyOptions}
    IN {<<r>> : r \in one}
         \cup {<<r, q>> : r \in {x \in one : x.amount = 1},
                          q \in {x \in one : x.amount + 1 <= Len(FreeSlots)}}

\* positions get_random_position can return: x in [-450, 450), y in [-250, 250)
SpawnPositions ==
    {Vec2(-(WINDOW_WIDTH \div 2 - 50), -(WINDOW_HEIGHT \div 2 - 50)), Vec2(-200, 100),
     Vec2(0, 0), Vec2(200, 0), Vec2(WINDOW_WIDTH \div 2 - 51, WINDOW_HEIGHT \div 2 - 51)}

\* hitboxes a map file gives an obstacle: a block, a wall as large as the window
ObstacleHitboxes == {Rectangle(30, 30), Rectangle(WINDOW_WIDTH, WINDOW_HEIGHT)}

ObstaclePositions == {Vec2(0, 0), Vec2(-200, 100), Vec2(300, 200)}

\* the closure check_position of get_random_free_position
check_position(other_objects, hb, p) ==
    \A o \in other_objects : ~check_collision(hb, p, o.hitbox, o.pos)

\* the filter and map of spawn_enemies over the query
OtherObjects ==
    {[pos |-> pos[e], hitbox |-> hitbox[e]] :
        e \in {q \in Ent : alive[q] /\ TypeOf(q) \in {"Enemy", "Player", "Obstacle"}}}

\* the loops of spawn_enemies move on to the next enemy or request, or return
NextToPlace(sp) ==
    IF sp.left > 1 THEN [sp EXCEPT !.left = @ - 1]
    ELSE IF sp.queue = <<>> THEN IdleSpawner
    ELSE [sp EXCEPT !.left = Head(sp.queue).amount, !.options = Head(sp.queue).options,
                    !.queue = Tail(sp.queue)]

\* setup_enemies: the requests of the level that is entered
setup_enemies ==
    /\ ~panicked
    /\ spawnEv = <<>>
    /\ spawnEv' \in LevelRequests
    /\ UNCHANGED <<kind, posz, levelVars, mapVars, hitbox, dir, alive, pos, vel, health, collisionEv,
                   damageEv, healEv, deathEv, unread, done, registered, despawnCmd, panicked,
                   overflowChecks, keys, dt, frame, last, spawnRead, spawner, spawnCmd>>

\* spawn_enemies up to its first call of get_random_free_position
spawn_enemies ==
    /\ ~panicked
    /\ spawner.pc = "idle"
    /\ spawnRead < Len(spawnEv)
    /\ LET requests == SubSeq(spawnEv, spawnRead + 1, Len(spawnEv))
       IN spawner' = [pc |-> "searching", left |-> Head(requests).amount,
                      options |-> Head(requests).options, queue |-> Tail(requests),
                      others |-> OtherObjects]
    /\ spawnRead' = Len(spawnEv)
    /\ UNCHANGED <<kind, posz, levelVars, mapVars, hitbox, dir, alive, pos, vel, health, collisionEv,
                   damageEv, healEv, deathEv, unread, done, registered, despawnCmd, panicked,
                   overflowChecks, keys, dt, frame, last, spawnEv, spawnCmd>>

\* one iteration of the loop of get_random_free_position; when the position is
\* free, the rest of the body of the loop of spawn_enemies
get_random_free_position ==
    /\ ~panicked
    /\ spawner.pc = "searching"
    /\ \E random_position \in SpawnPositions :
         LET hb == Rectangle(spawner.options.size, spawner.options.size)
         IN IF check_position(spawner.others, hb, random_position)
            THEN /\ spawner' = NextToPlace(
                        [spawner EXCEPT !.others = @ \cup {[pos |-> random_position,
                                                          hitbox |-> hb]}])
                 /\ spawnCmd' = Append(spawnCmd, [pos |-> random_position, hitbox |-> hb,
                                                  health |-> spawner.options.health])
            ELSE UNCHANGED <<spawner, spawnCmd>>
    /\ UNCHANGED <<kind, posz, levelVars, mapVars, hitbox, dir, alive, pos, vel, health, collisionEv,
                   damageEv, healEv, deathEv, unread, done, registered, despawnCmd, panicked,
                   overflowChecks, keys, dt, frame, last, spawnEv, spawnRead>>

\* the entity slot the n-th queued spawn command fills, 0 for the other slots
CommandOf(e) ==
    LET ns == {n \in 1..Len(spawnCmd) : n <= Len(FreeSlots) /\ FreeSlots[n] = e}
    IN IF ns = {} THEN 0 ELSE CHOOSE n \in ns : TRUE

\* the end of the PostUpdate stage: the commands of spawn_enemy are applied
apply_spawn_commands ==
    /\ ~panicked
    /\ spawner.pc = "idle"
    /\ spawnCmd # <<>>
    /\ alive' = [e \in Ent |-> alive[e] \/ CommandOf(e) # 0]
    /\ kind' = [e \in Ent |-> IF CommandOf(e) # 0 THEN "EnemyBundle" ELSE kind[e]]
    /\ hitbox' = [e \in Ent |-> IF CommandOf(e) # 0 THEN spawnCmd[CommandOf(e)].hitbox
                                ELSE hitbox[e]]
    /\ pos' = [e \in Ent |-> IF CommandOf(e) # 0 THEN spawnCmd[CommandOf(e)].pos ELSE pos[e]]
    /\ posz' = [e \in Ent |-> IF CommandOf(e) # 0 THEN 1 ELSE posz[e]]
    /\ vel' = [e \in Ent |-> IF CommandOf(e) # 0 THEN Origin ELSE vel[e]]
    /\ health' = [e \in Ent |-> IF CommandOf(e) # 0
                                THEN new_health(spawnCmd[CommandOf(e)].health)
                                ELSE health[e]]
    /\ spawnCmd' = <<>>
    /\ UNCHANGED <<mapVars, levelVars, dir, collisionEv, damageEv, healEv, deathEv, unread, done,
                   registered, despawnCmd, panicked, overflowChecks, keys, dt, frame, last,
                   spawnEv, spawnRead, spawner>>

\* a level that has just been entered: the player of spawn_player, an obstacle of
\* the rendered map, and no enemy yet
InitSpawn ==
    /\ kind = [e \in Ent |-> IF e = 1 THEN "PlayerBundle"
                             ELSE IF e = 2 THEN "MapObstacle" ELSE "EnemyBundle"]
    /\ hitbox \in {h \in [Ent -> ObstacleHitboxes] :
                      \A e \in Ent : e # 2 => h[e] = Rectangle(30, 30)}
    /\ dir = [e \in Ent |-> Origin]
    /\ alive = [e \in Ent |-> e <= 2]
    /\ pos \in {p \in [Ent -> ObstaclePositions \cup {Vec2(200, 0)}] :
                   /\ p[1] = Vec2(200, 0)
                   /\ p[2] \in ObstaclePositions
                   /\ \A e \in Ent : e > 2 => p[e] = Vec2(0, 0)}
    /\ vel = [e \in Ent |-> Origin]
    /\ health = [e \in Ent |-> IF e = 1 THEN new_health(PLAYER_START_HEALTH) ELSE NoHealth]
    /\ posz = [e \in Ent |-> ZOfKind(kind[e])]
    /\ QuietPipeline
    /\ MapIdle
    /\ SpawnIdle
    /\ LevelIdle

NextSpawn ==
    \/ setup_enemies
    \/ spawn_enemies
    \/ get_random_free_position
    \/ apply_spawn_commands

SpecSpawn == InitSpawn /\ [][NextSpawn]_vars

\* C28: the search of the spawner for a free position ends whatever occupies the
\* play area: while it is searching, some position it can draw is free.
C28_SearchCanEnd ==
    spawner.pc = "searching" =>
        \E p \in SpawnPositions :
           check_position(spawner.others,
                          Rectangle(spawner.options.size, spawner.options.size), p)

(***************************************************************************)
(* Properties of the pair policy.                                          *)
(***************************************************************************)
\* C31: ignore_collision and allow_overlap give the same answer for (a, b) and for
\* (b, a), for all object types and so for every two entities of the scene.
C31_PolicySymmetric ==
    /\ \A a, b \in MoveObjectType :
         /\ ignore_collision(a, b) = ignore_collision(b, a)
         /\ allow_overlap(a, b) = allow_overlap(b, a)
    /\ \A e, f \in Ent :
         /\ ignore_collision(TypeOf(e), TypeOf(f)) = ignore_collision(TypeOf(f), TypeOf(e))
         /\ allow_overlap(TypeOf(e), TypeOf(f)) = allow_overlap(TypeOf(f), TypeOf(e))

\* move_system has visited a pair (PlayerBullet, Player), the bullet first, whose
\* rectangles overlap and has sent no event for it, as for a pair (Player, PlayerBullet)
C31_Witness ==
    /\ frame = 0
    /\ "move_system" \in done
    /\ \E a, b \in Ent :
         /\ a < b
         /\ TypeOf(a) = "PlayerBullet" /\ TypeOf(b) = "Player"
         /\ vel[a] = Origin /\ vel[b] = Origin
         /\ pos[a] = pos[b]
         /\ CountPair(collisionEv.evs, a, b) = 0
         /\ CountPair(collisionEv.evs, b, a) = 0

(***************************************************************************)
(* Properties of the bullets with a HealthData.                            *)
(***************************************************************************)
\* the bullets spawned with HealthData::new_health(1)
HealthBullets ==
    {e \in Ent : alive[e] /\ HasHealth(kind[e])
                 /\ MarkerOfKind(kind[e]) \in {"EnemyBulletMarker", "PlayerBulletMarker"}}

\* the CollisionEvents of this frame with e as object
HitsOf(e) == {i \in 1..Len(SentThisFrame(collisionEv)) :
                 SentThisFrame(collisionEv)[i].object_id = e}

C34_RenderLoadsMissingMap ==
    [][mapRead'.render # mapRead.render =>
        LET ids == MapUnread(renderMapEv, mapRead.render)
            spawned == SubSeq(rendered', Len(rendered) + 1, Len(rendered'))
        IN \A i \in 1..Len(ids) :
              files[ids[i]] = "valid" =>
                 /\ ids[i] \in maps'
                 /\ \E n \in 1..Len(spawned) : spawned[n] = ids[i]
      ]_vars

(***************************************************************************)
(* Properties of heal in the arithmetic of usize.                          *)
(***************************************************************************)
\* C37: heal(amount) does not abort and leaves current_health at least where it was,
\* for every amount of the machine word: an entity whose only events in a run of
\* health_system are HealEvents does not end the run with a lower current_health.
C37_HealNeverLowers ==
    [][RunOf("health_system") \/ (~panicked /\ panicked') =>
        LET heals == EventsUnread(healEv, unread["health_system.heal"])
            dmgs == EventsUnread(damageEv, unread["health_system.damage"])
        IN \A e \in Ent :
              (/\ alive[e] /\ HasHealth(kind[e])
               /\ EventsFor(heals, e) # <<>>
               /\ EventsFor(dmgs, e) = <<>>)
              => /\ ~panicked'
                 /\ health'[e].current_health >= health[e].current_health
      ]_vars

(***************************************************************************)
(* move_system with objects on and beyond the edges of the window: bullets *)
(* keep flying after they leave it, and nothing stops any other object at  *)
(* the edge.                                                               *)
(***************************************************************************)
EdgeKinds(e) ==
    IF e = 1 THEN {"BulletBundle", "EnemyBulletBundle"}
    ELSE IF e = 2 THEN {"EnemyBulletBundle", "EnemyBundle"}
    ELSE {"MapObstacle"}

EdgePositions(e) ==
    IF e = 1 THEN {Vec2(-560, -340), Vec2(-510, -310), Vec2(-490, 290), Vec2(490, 290),
                   Vec2(590, 10), Vec2(1040, 640)}
    ELSE IF e = 2 THEN {Vec2(-1040, 0), Vec2(-490, -290), Vec2(10, 690), Vec2(510, 310)}
    ELSE {Vec2(480, 280), Vec2(-480, -280)}

EdgeVelocities(e) ==
    IF e = 1 THEN {Origin, Vec2(200, 200), Vec2(-200, -200)}
    ELSE IF e = 2 THEN {Vec2(-200, 0), Vec2(200, 200)}
    ELSE {Origin}

InitEdge ==
    /\ kind \in {k \in [Ent -> Kinds] : \A e \in Ent : k[e] \in EdgeKinds(e)}
    /\ hitbox = [e \in Ent |-> HitboxOfKind(kind[e])]
    /\ dir = [e \in Ent |-> Origin]
    /\ alive = [e \in Ent |-> TRUE]
    /\ pos \in {p \in [Ent -> UNION {EdgePositions(e) : e \in Ent}] :
                   \A e \in Ent : p[e] \in EdgePositions(e)}
    /\ vel \in {v \in [Ent -> UNION {EdgeVelocities(e) : e \in Ent}] :
                   \A e \in Ent : v[e] \in IF HasVelocity(kind[e])
                                           THEN EdgeVelocities(e) ELSE {Origin}}
    /\ health = [e \in Ent |-> new_health(HealthOfKind(kind[e]))]
    /\ collisionEv = EmptyEvents
    /\ damageEv = EmptyEvents
    /\ healEv = EmptyEvents
    /\ deathEv = EmptyEvents
    /\ unread = [r \in Readers |-> 0]
    /\ done = {"clear_velocity_vector"}
    /\ registered = MoveSystems
    /\ despawnCmd = {}
    /\ panicked = FALSE
    /\ overflowChecks = FALSE
    /\ keys = Origin
    /\ dt = 1
    /\ frame = 0
    /\ last = NoLast
    /\ posz = [e \in Ent |-> ZOfKind(kind[e])]
    /\ MapIdle
    /\ SpawnIdle
    /\ LevelIdle

NextEdge ==
    \/ clear_velocity_vector
    \/ move_system
    \/ NextFrame

SpecEdge == InitEdge /\ [][NextEdge]_vars

\* an index pair of the array zones: [[Vec<_>; ZONES_VERTICALLY]; ZONES_HORIZONTALLY]
InZones(z) == z.x \in 0..(ZONES_HORIZONTALLY - 1) /\ z.y \in 0..(ZONES_VERTICALLY - 1)

\* C38: get_zone gives an index pair of the zone grid for every position, also left of,
\* below, right of and above the window, so the zone an object is pushed to and the
\* bordering zones move_system reads from it are all inside the grid.
C38_ZoneInRange ==
    \A e \in Ent :
        /\ InZones(get_zone(pos[e]))
        /\ InZones(get_zone(future_position(e)))
        /\ \A n \in 1..Len(bordering_zones(get_zone(pos[e]))) :
              InZones(bordering_zones(get_zone(pos[e]))[n])

\* move_system ran with one object left of and below the window and another one
\* beyond the last column or row of the grid
C38_Witness ==
    /\ "move_system" \in done
    /\ \E e, f \in Ent :
          /\ InGrid(e) /\ pos[e].x + WINDOW_WIDTH \div 2 < 0 /\ pos[e].y + WINDOW_HEIGHT \div 2 < 0
          /\ InGrid(f)
          /\ \/ (pos[f].x + WINDOW_WIDTH \div 2) \div ZONE_SIZE >= ZONES_HORIZONTALLY
             \/ (pos[f].y + WINDOW_HEIGHT \div 2) \div ZONE_SIZE >= ZONES_VERTICALLY

(***************************************************************************)
(* Non-penetration.                                                        *)
(***************************************************************************)
\* the rectangles of e and f overlap at the positions p, and their type pair is not ignored
Penetrates(p, e, f) ==
    /\ e # f /\ InGrid(e) /\ InGrid(f)
    /\ ~ignore_collision(TypeOf(e), TypeOf(f))
    /\ check_collision(hitbox[e], p[e], hitbox[f], p[f])

\* C36: when no two objects of the grid with a non-ignored type pair overlap before
\* move_system runs, none overlap after it.
C36_NonPenetration ==
    [][RunOf("move_system") =>
        ((\A e, f \in Ent : ~Penetrates(pos, e, f))
            => (\A e, f \in Ent : ~Penetrates(pos', e, f)))
      ]_vars

(***************************************************************************)
(* move_system over hitboxes of both shapes: Hitbox::check_collision takes *)
(* any two values of the enum Hitbox.                                      *)
(***************************************************************************)
ShapeKinds(e) ==
    IF e = 1 THEN {"PlayerBundle", "BulletBundle"}
    ELSE IF e = 2 THEN {"EnemyBundle", "MapObstacle"}
    ELSE {"EnemyBundle", "EnemyBulletBundle"}

\* Hitbox::Rectangle as the spawners create it, or Hitbox::Circle
ShapeHitboxes(k) == {HitboxOfKind(k), Circle(15)}

ShapePositions(e) ==
    IF e = 1 THEN {Vec2(-40, 10)}
    ELSE IF e = 2 THEN {Vec2(-10, 10), Vec2(40, 10)}
    ELSE {Vec2(-40, 30), Vec2(60, 10)}

ShapeVelocities(e) == IF e = 1 THEN {Origin, Vec2(200, 0)} ELSE {Origin}

InitShapes ==
    /\ kind \in {k \in [Ent -> Kinds] : \A e \in Ent : k[e] \in ShapeKinds(e)}
    /\ hitbox \in {h \in [Ent -> UNION {ShapeHitboxes(k) : k \in Kinds}] :
                      \A e \in Ent : h[e] \in ShapeHitboxes(kind[e])}
    /\ dir = [e \in Ent |-> Origin]
    /\ alive = [e \in Ent |-> TRUE]
    /\ pos \in {p \in [Ent -> UNION {ShapePositions(e) : e \in Ent}] :
                   \A e \in Ent : p[e] \in ShapePositions(e)}
    /\ vel \in {v \in [Ent -> UNION {ShapeVelocities(e) : e \in Ent}] :
                   \A e \in Ent : v[e] \in IF HasVelocity(kind[e])
                                           THEN ShapeVelocities(e) ELSE {Origin}}
    /\ health = [e \in Ent |-> new_health(HealthOfKind(kind[e]))]
    /\ collisionEv = EmptyEvents
    /\ damageEv = EmptyEvents
    /\ healEv = EmptyEvents
    /\ deathEv = EmptyEvents
    /\ unread = [r \in Readers |-> 0]
    /\ done = {"clear_velocity_vector"}
    /\ registered = MoveSystems
    /\ despawnCmd = {}
    /\ panicked = FALSE
    /\ overflowChecks = FALSE
    /\ keys = Origin
    /\ dt = 1
    /\ frame = 0
    /\ last = NoLast
    /\ posz = [e \in Ent |-> ZOfKind(kind[e])]
    /\ MapIdle
    /\ SpawnIdle
    /\ LevelIdle

NextShapes ==
    \/ clear_velocity_vector
    \/ move_system
    \/ NextFrame

SpecShapes == InitShapes /\ [][NextShapes]_vars

\* the visited pairs that are not ignored and have a Circle on at least one side
CirclePairs(pairs) ==
    {n \in 1..Len(pairs) :
        /\ ~ignore_collision(TypeOf(pairs[n][1]), TypeOf(pairs[n][2]))
        /\ hitbox[pairs[n][1]].shape = "Circle" \/ hitbox[pairs[n][2]].shape = "Circle"}

\* C32: when move_system visits a non-ignored pair with a Circle on either side, the
\* run aborts: it does not complete, no Transform is written, and no CollisionEvent
\* is sent for any such pair.
C32_CirclePairsFatal ==
    [][(~panicked /\ (RunOf("move_system") \/ panicked')) =>
        LET visited == VisitedPairs
            sent == SentBy(collisionEv, collisionEv')
        IN CirclePairs(visited) # {} =>
              /\ panicked'
              /\ "move_system" \notin done'
              /\ pos' = pos
              /\ \A n \in CirclePairs(visited) :
                    CountPair(sent, visited[n][1], visited[n][2]) = 0
      ]_vars

\* the run was aborted by a visited pair of a rectangle and a circle, after the
\* CollisionEvents of an earlier pair of rectangles were sent
C32_Witness ==
    /\ panicked
    /\ "move_system" \notin done
    /\ Len(collisionEv.evs) > 0
    /\ \E n \in CirclePairs(VisitedPairs) :
          {hitbox[VisitedPairs[n][1]].shape, hitbox[VisitedPairs[n][2]].shape}
              = {"Rectangle", "Circle"}

(***************************************************************************)
(* The course of the game: GamePlugin with HealthPlugin, spawn_player of   *)
(* PlayerPlugin and the spawner of EnemyPlugin, from a level that is being *)
(* played through the end of the level and one change of level. The map,   *)
(* the camera and the menus touch neither the players, the enemies nor the *)
(* health events and are left out; in the state GameEnded no button is     *)
(* pressed.                                                                *)
(***************************************************************************)
PLAYER_BOOST_HEALTH == 20

\* the levels of ENEMIES_ON_LEVEL, which setup_enemies indexes with Level.current - 1
MAX_LEVEL == 3

HealEvent(id, amount) == [id |-> id, amount |-> amount]

GameSystems == {"health_system", "check_if_player_finished_level"}

check_if_player_finished_level ==
    /\ CanRun("check_if_player_finished_level")
    /\ LET no_spawned_enemies == WithMarker({"EnemyMarker"}) = {}
           no_enemies_to_spawn == checkRead = Len(spawnEv)
           player == WithMarker({"PlayerMarker"})
       IN IF no_spawned_enemies /\ no_enemies_to_spawn
          THEN /\ IF Single(player)
                  THEN /\ healEv' = EventsSend(healEv, HealEvent(CHOOSE e \in player : TRUE,
                                                                 PLAYER_BOOST_HEALTH))
                       /\ unread' = Bump(unread, HealReaders, 1)
                  ELSE UNCHANGED <<healEv, unread>>
               /\ nextState' = "NextLevel"
          ELSE UNCHANGED <<healEv, unread, nextState>>
    /\ checkRead' = Len(spawnEv)
    /\ done' = done \cup {"check_if_player_finished_level"}
    /\ UNCHANGED <<kind, posz, mapVars, spawnVars, hitbox, dir, alive, pos, vel, health,
                   collisionEv, damageEv, deathEv, registered, despawnCmd, panicked,
                   overflowChecks, keys, dt, frame, last, appState, entering, levelCurrent,
                   playerCmd>>

\* the update pass of InGame is over with NextLevel scheduled: the state is left
\* and next_level, the system of on_enter(NextLevel), runs
next_level ==
    /\ ~panicked
    /\ appState = "InGame" /\ ~entering /\ nextState = "NextLevel"
    /\ done = {s \in registered : RunsInState(s)}
    /\ appState' = "NextLevel"
    /\ IF levelCurrent < MAX_LEVEL
       THEN /\ levelCurrent' = levelCurrent + 1
            /\ nextState' = "InGame"
       ELSE /\ nextState' = "GameEnded"
            /\ UNCHANGED levelCurrent
    /\ done' = done \cap Ungated
    /\ UNCHANGED <<kind, posz, mapVars, spawnVars, hitbox, dir, alive, pos, vel, health,
                   collisionEv, damageEv, healEv, deathEv, unread, registered, despawnCmd,
                   panicked, overflowChecks, keys, dt, frame, last, entering, checkRead,
                   playerCmd>>

\* the state scheduled by next_level is entered; a level is entered while there are
\* entity slots for its player and an enemy and the requests of the level before are gone
enter_state ==
    /\ ~panicked
    /\ appState = "NextLevel" /\ nextState # "none"
    /\ nextState = "InGame" => Len(FreeSlots) >= 2 /\ spawnEv = <<>>
    /\ appState' = nextState
    /\ nextState' = "none"
    /\ entering' = (nextState = "InGame")
    /\ UNCHANGED <<kind, posz, mapVars, spawnVars, hitbox, dir, alive, pos, vel, health,
                   collisionEv, damageEv, healEv, deathEv, unread, done, registered,
                   despawnCmd, panicked, overflowChecks, keys, dt, frame, last, levelCurrent,
                   checkRead, playerCmd>>

\* spawn_player, a system of on_enter(InGame): queues the spawn of a PlayerBundle
spawn_player ==
    /\ ~panicked
    /\ appState = "InGame" /\ entering
    /\ "spawn_player" \notin done
    /\ playerCmd' = playerCmd + 1
    /\ done' = done \cup {"spawn_player"}
    /\ UNCHANGED <<kind, posz, mapVars, spawnVars, hitbox, dir, alive, pos, vel, health,
                   collisionEv, damageEv, healEv, deathEv, unread, registered, despawnCmd,
                   panicked, overflowChecks, keys, dt, frame, last, appState, nextState,
                   entering, levelCurrent, checkRead>>

\* the end of the on_enter pass, after spawn_player and setup_enemies: the command of
\* spawn_player is applied and the update pass of InGame begins
apply_player_commands ==
    /\ ~panicked
    /\ entering
    /\ "spawn_player" \in done /\ spawnEv # <<>>
    /\ LET e == Head(FreeSlots)
       IN /\ alive' = [alive EXCEPT ![e] = TRUE]
          /\ kind' = [kind EXCEPT ![e] = "PlayerBundle"]
          /\ hitbox' = [hitbox EXCEPT ![e] = Rectangle(30, 30)]
          /\ pos' = [pos EXCEPT ![e] = Vec2(200, 0)]
          /\ posz' = [posz EXCEPT ![e] = 1]
          /\ vel' = [vel EXCEPT ![e] = Origin]
          /\ dir' = [dir EXCEPT ![e] = Origin]
          /\ health' = [health EXCEPT ![e] = new_health(PLAYER_START_HEALTH)]
    /\ playerCmd' = 0
    /\ entering' = FALSE
    /\ done' = done \ {"spawn_player"}
    /\ UNCHANGED <<mapVars, spawnVars, collisionEv, damageEv, healEv, deathEv, unread,
                   registered, despawnCmd, panicked, overflowChecks, keys, dt, frame, last,
                   appState, nextState, levelCurrent, checkRead>>

\* the HealthData of a player: untouched, or damaged by 12 or by 32
PlayerHealths ==
    {[max_health |-> PLAYER_START_HEALTH, current_health |-> c] :
        c \in {PLAYER_START_HEALTH, PLAYER_START_HEALTH - 12, PLAYER_START_HEALTH - 32}}

\* a level that is being played, at the start of a frame: spawn_player has run once
\* for each level entered and nothing despawns a player, the enemies of the level are
\* alive or despawned, and the requests of setup_enemies have been served
InitGame ==
    /\ levelCurrent \in 1..Min(MAX_LEVEL, NumEnt)
    /\ kind = [e \in Ent |-> IF e <= levelCurrent THEN "PlayerBundle" ELSE "EnemyBundle"]
    /\ hitbox = [e \in Ent |-> Rectangle(30, 30)]
    /\ dir = [e \in Ent |-> Origin]
    /\ alive \in {a \in [Ent -> BOOLEAN] : \A e \in Ent : e <= levelCurrent => a[e]}
    /\ pos = [e \in Ent |-> IF e <= levelCurrent THEN Vec2(200, 0) ELSE Vec2(-200, 100)]
    /\ vel = [e \in Ent |-> Origin]
    /\ health \in {h \in [Ent -> PlayerHealths \cup {new_health(SIMPLE_ENEMY_HEALTH)}] :
                      \A e \in Ent : IF e <= levelCurrent THEN h[e] \in PlayerHealths
                                     ELSE h[e] = new_health(SIMPLE_ENEMY_HEALTH)}
    /\ posz = [e \in Ent |-> ZOfKind(kind[e])]
    /\ collisionEv = EmptyEvents
    /\ damageEv = EmptyEvents
    /\ healEv = EmptyEvents
    /\ deathEv = EmptyEvents
    /\ unread = [r \in Readers |-> 0]
    /\ done = {}
    /\ registered = GameSystems
    /\ despawnCmd = {}
    /\ panicked = FALSE
    /\ overflowChecks \in BOOLEAN
    /\ keys = Origin
    /\ dt = 1
    /\ frame = 0
    /\ last = NoLast
    /\ MapIdle
    /\ spawnEv = <<>>
    /\ spawnRead = 0
    /\ spawner = IdleSpawner
    /\ spawnCmd = <<>>
    /\ appState = "InGame"
    /\ nextState = "none"
    /\ entering = FALSE
    /\ checkRead = 0
    /\ playerCmd = 0

\* spawn_enemies runs in CoreStage::PostUpdate, after the Update stage, and the frame
\* ends when its commands are applied
NextGame ==
    \/ health_system
    \/ check_if_player_finished_level
    \/ next_level
    \/ enter_state
    \/ spawn_player
    \/ (appState = "InGame" /\ entering /\ setup_enemies)
    \/ apply_player_commands
    \/ (UpdateStageDone /\ spawn_enemies)
    \/ (UpdateStageDone /\ get_random_free_position)
    \/ (UpdateStageDone /\ apply_spawn_commands)
    \/ (spawnRead = Len(spawnEv) /\ spawner.pc = "idle" /\ spawnCmd = <<>> /\ NextFrame)

SpecGame == InitGame /\ [][NextGame]_vars

\* C35: when check_if_player_finished_level finds no enemy and no unread SpawnEnemies
\* request it sends exactly one HealEvent, for the player and PLAYER_BOOST_HEALTH, and
\* schedules NextLevel; no HealEvent health_system has not read is dropped at the end of
\* a frame; and health_system adds the amount of a HealEvent it reads to the health of
\* its entity, up to max_health.
C35_LevelCompletionHeal ==
    [][/\ (/\ RunOf("check_if_player_finished_level")
           /\ WithMarker({"EnemyMarker"}) = {}
           /\ checkRead = Len(spawnEv))
          => /\ \E p \in WithMarker({"PlayerMarker"}) :
                   SentBy(healEv, healEv') = <<HealEvent(p, PLAYER_BOOST_HEALTH)>>
             /\ nextState' = "NextLevel"
       /\ frame' # frame
          => unread'["health_system.heal"] = unread["health_system.heal"]
       /\ RunOf("health_system")
          => LET heals == EventsUnread(healEv, unread["health_system.heal"])
             IN \A i \in 1..Len(heals) :
                   health'[heals[i].id].current_health
                      = Min(health[heals[i].id].max_health,
                            health[heals[i].id].current_health + heals[i].amount)
      ]_vars

====
